---- MODULE Spec2Model ----
(***************************************************************************)
(* C1C-Matchmaker: sheet cache, row matcher, filter panels, reaction flip  *)
(* and the recruiter panel command of bot_clanmatch_prefix.py.             *)
(* Text is kept as TLA+ strings; Python None is the value None below.      *)
(***************************************************************************)
EXTENDS Integers, Sequences, FiniteSets, TLC

VARIABLES
    m_row, m_f, m_pc, m_res,        \* row_matches: arguments, call position, result
    env,                            \* configuration read from the environment at import
    now,                            \* time.time(), whole seconds
    sheet,                          \* which content the remote worksheet has now
    cache_rows, cache_time, ws,     \* _cache_rows, _cache_time, _ws
    nconn, nfetch,                  \* worksheet connections made, sheet reads done
    last_clear,                     \* history: counters at the last clear_cache
    nmsg, card, react_index,        \* messages sent, what each shows, REACT_INDEX
    view,                           \* the ClanMatchView of the panel
    panel_shown,                    \* what the panel message shows
    nres, results,                  \* results messages posted by a classic panel
    nitx,                           \* interactions and reactions handled so far
    rh,                             \* the reaction handlers between their awaits
    flipped_from,                   \* per message, the card its last flip replaced
    active_panels,                  \* ACTIVE_PANELS
    npanel, panels,                 \* panel messages sent by !clanmatch and !clansearch
    thread,                         \* what PANEL_FIXED_THREAD_ID refers to
    cog,                            \* the Welcome cog: its settings, cache and default_row
    posted,                         \* the welcome messages posted, by channel and tag
    ev                              \* the last event handled and what it did

mvars == <<m_row, m_f, m_pc, m_res>>

cvars == <<now, sheet, cache_rows, cache_time, ws, nconn, nfetch, last_clear>>

rvars == <<nmsg, card, react_index>>

pvars == <<view, panel_shown, nres, results, nitx>>

hvars == <<rh, flipped_from>>

kvars == <<active_panels, npanel, panels, thread>>

wvars == <<cog, posted>>

vars == <<m_row, m_f, m_pc, m_res, env, now, sheet, cache_rows, cache_time, ws,
          nconn, nfetch, last_clear, nmsg, card, react_index,
          view, panel_shown, nres, results, nitx, rh, flipped_from,
          active_panels, npanel, panels, thread, cog, posted, ev>>

(***************************************************************************)
(* Python values and string primitives                                     *)
(***************************************************************************)
None == "<None>"

Falsy(s) == s = None \/ s = ""

OrEmpty(s) == IF s = None THEN "" ELSE s

Ch(s, i) == SubSeq(s, i, i)

LowerAlpha == "abcdefghijklmnopqrstuvwxyz"
UpperAlpha == "ABCDEFGHIJKLMNOPQRSTUVWXYZ"

UpperCh(c) ==
    IF \E i \in 1..26 : Ch(LowerAlpha, i) = c
    THEN Ch(UpperAlpha, CHOOSE i \in 1..26 : Ch(LowerAlpha, i) = c)
    ELSE c

RECURSIVE StrUpper(_)
StrUpper(s) == IF s = "" THEN "" ELSE UpperCh(Ch(s, 1)) \o StrUpper(SubSeq(s, 2, Len(s)))

IsSpace(c) == c \in {" ", "\t", "\n", "\r"}

RECURSIVE LStrip(_)
LStrip(s) == IF s # "" /\ IsSpace(Ch(s, 1)) THEN LStrip(SubSeq(s, 2, Len(s))) ELSE s

RECURSIVE RStrip(_)
RStrip(s) == IF s # "" /\ IsSpace(Ch(s, Len(s))) THEN RStrip(SubSeq(s, 1, Len(s) - 1)) ELSE s

StrStrip(s) == RStrip(LStrip(s))

\* Python's `t in c` for strings
StrIn(t, c) == \E i \in 0..(Len(c) - Len(t)) : SubSeq(c, i + 1, i + Len(t)) = t

\* s.replace(a, b) for a single character a
RECURSIVE ReplaceCh(_, _, _)
ReplaceCh(s, a, b) ==
    IF s = "" THEN ""
    ELSE (IF Ch(s, 1) = a THEN b ELSE Ch(s, 1)) \o ReplaceCh(SubSeq(s, 2, Len(s)), a, b)

\* re.sub(r"\s+", " ", s)
RECURSIVE CollapseWs(_)
CollapseWs(s) ==
    IF s = "" THEN ""
    ELSE IF IsSpace(Ch(s, 1))
         THEN " " \o CollapseWs(LStrip(s))
         ELSE Ch(s, 1) \o CollapseWs(SubSeq(s, 2, Len(s)))

\* re.split(r"[,\|/;]+", s)
IsDelim(c) == c \in {",", "|", "/", ";"}

RECURSIVE SkipDelims(_)
SkipDelims(s) == IF s # "" /\ IsDelim(Ch(s, 1)) THEN SkipDelims(SubSeq(s, 2, Len(s))) ELSE s

RECURSIVE SplitDelims(_, _)
SplitDelims(s, cur) ==
    IF s = "" THEN <<cur>>
    ELSE IF IsDelim(Ch(s, 1))
         THEN <<cur>> \o SplitDelims(SkipDelims(s), "")
         ELSE SplitDelims(SubSeq(s, 2, Len(s)), cur \o Ch(s, 1))

Digits == "0123456789"

IsDigit(c) == \E i \in 1..10 : Ch(Digits, i) = c

DigitVal(c) == (CHOOSE i \in 1..10 : Ch(Digits, i) = c) - 1

RECURSIVE ParseRun(_, _)
ParseRun(s, acc) ==
    IF s # "" /\ IsDigit(Ch(s, 1))
    THEN ParseRun(SubSeq(s, 2, Len(s)), acc * 10 + DigitVal(Ch(s, 1)))
    ELSE acc

(***************************************************************************)
(* Column map (0-based, as in the source)                                  *)
(***************************************************************************)
COL_B_CLAN == 1
COL_C_TAG == 2
COL_E_SPOTS == 4
COL_P_CB == 15
COL_Q_HYDRA == 16
COL_R_CHIM == 17
COL_S_CVC == 18
COL_T_SIEGE == 19
COL_U_STYLE == 20
IDX_AB == 27
IDX_AE_REQUIREMENTS == 30

Cell(row, idx) == row[idx + 1]

(***************************************************************************)
(* Row matcher helpers                                                     *)
(***************************************************************************)
norm(s) == StrUpper(StrStrip(OrEmpty(s)))

is_header_row(row) ==
    LET b == IF Len(row) > COL_B_CLAN THEN norm(Cell(row, COL_B_CLAN)) ELSE ""
        c == IF Len(row) > COL_C_TAG THEN norm(Cell(row, COL_C_TAG)) ELSE ""
        e == IF Len(row) > COL_E_SPOTS THEN norm(Cell(row, COL_E_SPOTS)) ELSE ""
    IN  b \in {"CLAN", "CLAN NAME"} \/ c = "TAG" \/ e = "SPOTS"

map_token(choice) ==
    LET c == norm(choice)
    IN  CASE c = "EASY" -> "ESY"
          [] c = "NORMAL" -> "NML"
          [] c = "HARD" -> "HRD"
          [] c = "BRUTAL" -> "BTL"
          [] c = "NM" -> "NM"
          [] c = "UNM" -> "UNM"
          [] c = "ULTRA-NIGHTMARE" -> "UNM"
          [] OTHER -> c

cell_has_diff(cell_text, token) ==
    IF Falsy(token) THEN TRUE
    ELSE LET t == map_token(token)
             c == norm(cell_text)
         IN  \/ StrIn(t, c)
             \/ (t = "HRD" /\ StrIn("HARD", c))
             \/ (t = "NML" /\ StrIn("NORMAL", c))
             \/ (t = "BTL" /\ StrIn("BRUTAL", c))

cell_equals_10(cell_text, expected) ==
    IF expected = None THEN TRUE
    ELSE StrStrip(OrEmpty(cell_text)) = expected

STYLE_CANON(s) ==
    CASE s = "STRESS FREE" -> "STRESSFREE"
      [] s = "STRESS-FREE" -> "STRESSFREE"
      [] s = "STRESSFREE" -> "STRESSFREE"
      [] s = "CASUAL" -> "CASUAL"
      [] s = "SEMI COMPETITIVE" -> "SEMICOMPETITIVE"
      [] s = "SEMI-COMPETITIVE" -> "SEMICOMPETITIVE"
      [] s = "SEMICOMPETITIVE" -> "SEMICOMPETITIVE"
      [] s = "COMPETITIVE" -> "COMPETITIVE"
      [] OTHER -> None

canon_style(s0) ==
    LET s == CollapseWs(ReplaceCh(StrUpper(StrStrip(OrEmpty(s0))), "-", " "))
    IN  IF STYLE_CANON(s) # None THEN STYLE_CANON(s)
        ELSE IF s = "SEMI COMPETITIVE" THEN "SEMICOMPETITIVE"
        ELSE IF s = "STRESS FREE" THEN "STRESSFREE"
        ELSE IF s \in {"STRESSFREE", "CASUAL", "SEMICOMPETITIVE", "COMPETITIVE"} THEN s
        ELSE None

split_styles(cell_text) ==
    LET parts == SplitDelims(OrEmpty(cell_text), "")
    IN  {canon_style(parts[i]) : i \in 1..Len(parts)} \ {None}

playstyle_ok(cell_text, value) ==
    IF Falsy(value) THEN TRUE
    ELSE LET wanted == canon_style(value)
         IN  IF wanted = None THEN TRUE
             ELSE wanted \in split_styles(cell_text)

RECURSIVE parse_spots_num(_)
parse_spots_num(cell_text) ==
    LET s == OrEmpty(cell_text)
    IN  IF s = "" THEN 0
        ELSE IF IsDigit(Ch(s, 1)) THEN ParseRun(s, 0)
        ELSE parse_spots_num(SubSeq(s, 2, Len(s)))

\* a copy-paste slip: the siege filter reads the CvC column
row_matches_siege_col(row, cb, hydra, chimera, cvc, siege, playstyle) ==
    IF Len(row) <= IDX_AB THEN FALSE
    ELSE IF is_header_row(row) THEN FALSE
    ELSE IF StrStrip(OrEmpty(Cell(row, COL_B_CLAN))) = "" THEN FALSE
    ELSE /\ cell_has_diff(Cell(row, COL_P_CB), cb)
         /\ cell_has_diff(Cell(row, COL_Q_HYDRA), hydra)
         /\ cell_has_diff(Cell(row, COL_R_CHIM), chimera)
         /\ cell_equals_10(Cell(row, COL_S_CVC), cvc)
         /\ cell_equals_10(Cell(row, COL_S_CVC), siege)
         /\ playstyle_ok(Cell(row, COL_U_STYLE), playstyle)

row_matches(row, cb, hydra, chimera, cvc, siege, playstyle) ==
    IF Len(row) <= IDX_AB THEN FALSE
    ELSE IF is_header_row(row) THEN FALSE
    ELSE IF StrStrip(OrEmpty(Cell(row, COL_B_CLAN))) = "" THEN FALSE
    ELSE /\ cell_has_diff(Cell(row, COL_P_CB), cb)
         /\ cell_has_diff(Cell(row, COL_Q_HYDRA), hydra)
         /\ cell_has_diff(Cell(row, COL_R_CHIM), chimera)
         /\ cell_equals_10(Cell(row, COL_S_CVC), cvc)
         /\ cell_equals_10(Cell(row, COL_T_SIEGE), siege)
         /\ playstyle_ok(Cell(row, COL_U_STYLE), playstyle)

(***************************************************************************)
(* Rows of the sheet: flat lists of strings                                *)
(***************************************************************************)
MkRow(n, clan, tag, spots, p, q, r, s, t, u) ==
    [i \in 1..n |->
        CASE i = COL_B_CLAN + 1 -> clan
          [] i = COL_C_TAG + 1 -> tag
          [] i = COL_E_SPOTS + 1 -> spots
          [] i = COL_P_CB + 1 -> p
          [] i = COL_Q_HYDRA + 1 -> q
          [] i = COL_R_CHIM + 1 -> r
          [] i = COL_S_CVC + 1 -> s
          [] i = COL_T_SIEGE + 1 -> t
          [] i = COL_U_STYLE + 1 -> u
          [] OTHER -> ""]


(***************************************************************************)
(* Environment                                                             *)
(***************************************************************************)
EnvDefault ==
    [RECRUITERS_THREAD_ID |-> 0,
     PANEL_THREAD_MODE |-> "same",
     PANEL_FIXED_THREAD_ID |-> 0,
     RECRUITER_ROLE_IDS |-> {},
     LEAD_ROLE_IDS |-> {},
     ADMIN_ROLE_IDS |-> {}]

(***************************************************************************)
(* The worksheet: contents the remote sheet can have                       *)
(***************************************************************************)
HeaderRow == MkRow(IDX_AE_REQUIREMENTS + 1, "Clan Name", "Tag", "Spots", "CB", "Hydra", "Chimera", "CvC", "Siege", "Style")

DataRow(clan, tag, spots, p, q, r, s, t, u) ==
    MkRow(IDX_AE_REQUIREMENTS + 1, clan, tag, spots, p, q, r, s, t, u)

ClanNames ==
    <<"Elders", "Martyrs", "Vikings", "Nomads", "Titans", "Wardens",
      "Ravens", "Lancers", "Heralds", "Monarchs", "Zealots", "Oracles">>

ClanTags ==
    <<"C1CE", "C1CM", "C1CV", "C1CN", "C1CT", "C1CW",
      "C1CR", "C1CL", "C1CH", "C1CO", "C1CZ", "C1CX">>

\* a roster of twelve clans, eleven of them with open spots
BigRow(i) ==
    DataRow(ClanNames[i], ClanTags[i],
            IF i = 12 THEN "0" ELSE "2",
            IF i <= 3 THEN "Hard, Brutal" ELSE "NM/UNM",
            "NML", "brutal",
            IF i % 2 = 1 THEN "1" ELSE "0",
            "1",
            IF i = 1 THEN "Casual" ELSE "competitive")

Sheets ==
    << <<HeaderRow,
         DataRow("Elders", "C1CE", "3", "Hard, NM", "NML", "brutal", "1", "0", "Casual"),
         DataRow("Martyrs", "C1CM", "0", "UNM", "Hard", "NM", "0", "1", "Competitive / Semi-Competitive")>>,
       <<HeaderRow>> \o [i \in 1..12 |-> BigRow(i)] >>

(***************************************************************************)
(* Sheets (lazy + cache)                                                   *)
(***************************************************************************)
CACHE_TTL == 60

\* _cache_rows is None
NoRows == [fid |-> 0, ver |-> 0, at |-> 0]

CacheIdle ==
    /\ now = 0 /\ sheet = 1
    /\ cache_rows = NoRows /\ cache_time = 0 /\ ws = 0
    /\ nconn = 0 /\ nfetch = 0
    /\ last_clear = [fid |-> 0, conn |-> 0, pending |-> FALSE]

\* get_ws(False) on worksheet w: the connection found or made, or the raise
get_ws(w, fail) ==
    IF w # 0 THEN [raised |-> FALSE, ws |-> w, connects |-> 0]
    ELSE IF fail = "connect" THEN [raised |-> TRUE, ws |-> 0, connects |-> 1]
    ELSE [raised |-> FALSE, ws |-> nconn + 1, connects |-> 1]

\* the age test of get_rows with >= for >
CacheStaleAtTTL == cache_rows = NoRows \/ (now - cache_time) >= CACHE_TTL

\* force or _cache_rows is None or (time.time() - _cache_time) > CACHE_TTL, force = False
CacheStale == cache_rows = NoRows \/ (now - cache_time) > CACHE_TTL

\* get_rows(False): what it returns or that it raised, and the globals it leaves
get_rows(fail) ==
    IF CacheStale
    THEN LET g == get_ws(ws, fail)
         IN  IF g.raised
             THEN [raised |-> TRUE, need |-> TRUE, read |-> FALSE, connects |-> g.connects,
                   rows |-> NoRows, cache_rows |-> cache_rows, cache_time |-> cache_time,
                   ws |-> g.ws]
             ELSE IF fail = "read"
             THEN [raised |-> TRUE, need |-> TRUE, read |-> TRUE, connects |-> g.connects,
                   rows |-> NoRows, cache_rows |-> cache_rows, cache_time |-> cache_time,
                   ws |-> g.ws]
             ELSE LET got == [fid |-> nfetch + 1, ver |-> sheet, at |-> now]
                  IN  [raised |-> FALSE, need |-> TRUE, read |-> TRUE, connects |-> g.connects,
                       rows |-> got, cache_rows |-> got, cache_time |-> now, ws |-> g.ws]
    ELSE [raised |-> FALSE, need |-> FALSE, read |-> FALSE, connects |-> 0,
          rows |-> cache_rows, cache_rows |-> cache_rows, cache_time |-> cache_time,
          ws |-> ws]

\* the globals after a call of get_rows with outcome g
AfterGetRows(g) ==
    /\ cache_rows' = g.cache_rows
    /\ cache_time' = g.cache_time
    /\ ws' = g.ws
    /\ nconn' = nconn + (IF g.connects = 1 /\ g.ws # 0 THEN 1 ELSE 0)
    /\ nfetch' = nfetch + (IF g.read /\ ~g.raised THEN 1 ELSE 0)
    /\ last_clear' = [last_clear EXCEPT !.pending = FALSE]

SheetFails == {"none", "connect", "read"}

\* the list of rows a cached value stands for
RowsOf(r) == Sheets[r.ver]

\* no call of row_matches is being followed
MatchIdle == m_row = <<>> /\ m_f = <<>> /\ m_pc = "idle" /\ m_res = FALSE

\* no Welcome cog is loaded
NoCog == [loaded |-> FALSE]

WelcomeIdle == cog = NoCog /\ posted = {}

(***************************************************************************)
(* Role gates                                                              *)
(***************************************************************************)
\* a command author: member says isinstance(author, discord.Member), admin is
\* guild_permissions.administrator, roles are the ids of the author's roles
Person(id, member, admin, roles) ==
    [id |-> id, member |-> member, admin |-> admin, roles |-> roles]

ROLE_LEAD == 20

People ==
    {Person(1, TRUE, TRUE, {}), Person(2, TRUE, FALSE, {ROLE_LEAD}),
     Person(3, TRUE, FALSE, {}), Person(4, FALSE, FALSE, {})}

has_role_id(member, ids) ==
    IF ids = {} \/ ~member.member THEN FALSE
    ELSE \E r \in member.roles : r \in ids

is_admin_perm(member) == member.admin

allowed_admin_or_lead(member) ==
    \/ is_admin_perm(member)
    \/ has_role_id(member, env.ADMIN_ROLE_IDS)
    \/ has_role_id(member, env.LEAD_ROLE_IDS)

(***************************************************************************)
(* Reaction flip registry and the messages it refers to                    *)
(***************************************************************************)
MaxMsgs == 2

Msgs == 1..MaxMsgs

NoInfo == [kind |-> "none", ver |-> 0, idx |-> 0, filters |-> ""]

ReactIdle ==
    /\ nmsg = 0
    /\ card = [m \in Msgs |-> "none"]
    /\ react_index = [m \in Msgs |-> NoInfo]

MaxHandlers == 2

Handlers == 1..MaxHandlers

NoRun == [pc |-> "idle", msg |-> 0, kind |-> "", alone |-> FALSE]

\* no reaction is being handled
HandlersIdle ==
    /\ rh = [h \in Handlers |-> NoRun]
    /\ flipped_from = [m \in Msgs |-> "none"]

(***************************************************************************)
(* Panel messages and ACTIVE_PANELS                                        *)
(***************************************************************************)
MaxPanels == 2
ROLE_RECRUITER == 10
THREAD_ID == 555

PanelIds == 1..MaxPanels

NoPanel == [state |-> "none", chan |-> "", author |-> 0, variant |-> ""]

\* the authors of the panel commands: an administrator, a recruiter, a member
\* with no role and somebody who is not a member of the guild
CmdPeople ==
    {Person(1, TRUE, TRUE, {}), Person(5, TRUE, FALSE, {ROLE_RECRUITER}),
     Person(3, TRUE, FALSE, {}), Person(4, FALSE, FALSE, {})}

ROLE_ADMIN == 30

\* the authors of the role-gated commands: one member for each way of being
\* permitted, a member with no role and somebody who is not a member
GatePeople ==
    {Person(1, TRUE, TRUE, {}), Person(2, TRUE, FALSE, {ROLE_LEAD}),
     Person(5, TRUE, FALSE, {ROLE_RECRUITER}), Person(6, TRUE, FALSE, {ROLE_ADMIN}),
     Person(3, TRUE, FALSE, {}), Person(4, FALSE, FALSE, {})}

\* (user_id, variant)
PanelKeys == {<<a.id, v>> : a \in CmdPeople \cup GatePeople, v \in {"classic", "search"}}

\* no panel was ever opened
CmdIdle ==
    /\ active_panels = [k \in PanelKeys |-> 0]
    /\ npanel = 0
    /\ panels = [k \in PanelIds |-> NoPanel]
    /\ thread = "thread"

(***************************************************************************)
(* Panel state                                                             *)
(***************************************************************************)
MaxResults == 2

ResultIds == 1..MaxResults

\* a results message: what it shows (state, ver, rows, the page shown, the
\* footer added last) and the PagedResultsView attached to it (pager, its
\* author_id and page, its buttons disabled, the time of its last interaction,
\* twin: the other message the same view object is attached to)
NoResult == [state |-> "none", ver |-> 0, rows |-> <<>>, page |-> 0, shown |-> 0,
             pager |-> FALSE, pdisabled |-> FALSE, pauthor |-> 0, twin |-> 0,
             pused |-> 0, foot |-> ""]

\* no panel has been opened
PanelIdle ==
    /\ view = [author_id |-> 0]
    /\ panel_shown = "none"
    /\ nres = 0
    /\ results = [r \in ResultIds |-> NoResult]
    /\ nitx = 0

(***************************************************************************)
(* Events of the cache: time, the remote sheet, !reload, !health, !clan,   *)
(* the daily summary                                                       *)
(***************************************************************************)
MaxTime == 122
MaxFetch == 2
MaxConn == 2

TickSteps == {CACHE_TTL, CACHE_TTL + 1}

Ev(op) ==
    [op |-> op, allowed |-> TRUE, called |-> FALSE, need |-> FALSE, read |-> FALSE,
     connects |-> 0, raised |-> FALSE, first |-> FALSE, sent |-> 0]

\* what a call of get_rows with outcome g adds to the event record
EvCall(e, g) ==
    [e EXCEPT !.called = TRUE, !.need = g.need, !.read = g.read, !.connects = g.connects,
              !.raised = g.raised, !.first = last_clear.pending]

Capped == nfetch >= MaxFetch \/ nconn >= MaxConn

\* time passes and, once the cached rows are older than the TTL, drops them
TickExpiring(dt, horizon) ==
    /\ now + dt <= horizon
    /\ now' = now + dt
    /\ ev' = Ev("tick")
    /\ IF cache_rows # NoRows /\ (now' - cache_time) > CACHE_TTL
       THEN cache_rows' = NoRows /\ cache_time' = 0
       ELSE UNCHANGED <<cache_rows, cache_time>>
    /\ UNCHANGED <<mvars, wvars, hvars, kvars, env, sheet, ws, nconn, nfetch, last_clear, rvars, pvars>>

\* time passes; nothing of the program runs
Tick(dt, horizon) ==
    /\ now + dt <= horizon
    /\ now' = now + dt
    /\ ev' = Ev("tick")
    /\ UNCHANGED <<mvars, wvars, hvars, kvars, env, sheet, cache_rows, cache_time, ws, nconn, nfetch, last_clear, rvars, pvars>>

\* somebody edits the remote worksheet
SheetEdit(v) ==
    /\ v # sheet
    /\ sheet' = v
    /\ ev' = Ev("edit")
    /\ UNCHANGED <<mvars, wvars, hvars, kvars, env, now, cache_rows, cache_time, ws, nconn, nfetch, last_clear, rvars, pvars>>

\* clear_cache without its global declaration of _cache_rows: the rows stay
clear_cache_keeps_rows ==
    /\ cache_rows' = cache_rows
    /\ cache_time' = 0
    /\ ws' = 0
    /\ last_clear' = [fid |-> nfetch, conn |-> nconn, pending |-> TRUE]

clear_cache ==
    /\ cache_rows' = NoRows
    /\ cache_time' = 0
    /\ ws' = 0
    /\ last_clear' = [fid |-> nfetch, conn |-> nconn, pending |-> TRUE]

\* !reload
ReloadCmd(author) ==
    /\ ~Capped
    /\ IF ~author.member \/ ~allowed_admin_or_lead(author)
       THEN /\ ev' = [Ev("reload") EXCEPT !.allowed = FALSE]
            /\ UNCHANGED <<cache_rows, cache_time, ws, last_clear>>
       ELSE /\ clear_cache
            /\ ev' = Ev("reload")
    /\ UNCHANGED <<mvars, wvars, hvars, kvars, env, now, sheet, nconn, nfetch, rvars, pvars>>

\* !health: get_ws(False) and a read of row 1, any failure reported in the reply
HealthCmd(author, fail) ==
    /\ ~Capped
    /\ IF ~author.member \/ ~allowed_admin_or_lead(author)
       THEN /\ ev' = [Ev("health") EXCEPT !.allowed = FALSE]
            /\ UNCHANGED <<ws, nconn>>
       ELSE LET g == get_ws(ws, fail)
            IN  /\ ws' = g.ws
                /\ nconn' = nconn + (IF g.connects = 1 /\ g.ws # 0 THEN 1 ELSE 0)
                /\ ev' = [Ev("health") EXCEPT !.connects = g.connects,
                                              !.raised = g.raised \/ fail = "read"]
    /\ UNCHANGED <<mvars, wvars, hvars, kvars, env, now, sheet, cache_rows, cache_time, nfetch, last_clear, rvars, pvars>>

\* find_clan_row on fetched rows: the index of the row found, 0 for None
find_clan_row(query, rows) ==
    LET q == StrUpper(StrStrip(query))
        Cand == {i \in 2..Len(rows) :
                    /\ ~is_header_row(rows[i])
                    /\ ~(StrStrip(Cell(rows[i], COL_B_CLAN)) = "" /\ StrStrip(Cell(rows[i], COL_C_TAG)) = "")}
        nU(i) == StrUpper(StrStrip(Cell(rows[i], COL_B_CLAN)))
        tU(i) == StrUpper(StrStrip(Cell(rows[i], COL_C_TAG)))
        First(S) == CHOOSE i \in S : \A j \in S : i <= j
        ByTag == {i \in Cand : q = tU(i)}
        ByName == {i \in Cand : q = nU(i)}
        Partial == {i \in Cand : StrIn(q, tU(i)) \/ StrIn(q, nU(i))}
    IN  IF ByTag # {} THEN First(ByTag)
        ELSE IF ByName # {} THEN First(ByName)
        ELSE IF Partial # {} THEN First(Partial)
        ELSE 0

ClanQueries == {"", "c1ce", "zzz"}

\* find_clan_row for each sheet content and query of the model
ClanFound == [v \in 1..Len(Sheets), q \in ClanQueries \ {""} |-> find_clan_row(q, Sheets[v])]

\* !clan <query>: the profile card, registered for the flip
ClanCmd(query, fail, replyFails) ==
    /\ ~Capped
    /\ nmsg < MaxMsgs
    /\ IF query = ""
       THEN /\ ev' = Ev("clan")
            /\ UNCHANGED <<cache_rows, cache_time, ws, nconn, nfetch, last_clear, rvars, pvars>>
       ELSE LET g == get_rows(fail)
                idx == IF g.raised THEN 0 ELSE ClanFound[g.rows.ver, query]
                id == nmsg + 1
            IN  /\ AfterGetRows(g)
                /\ IF g.raised \/ idx = 0 \/ replyFails
                   THEN /\ ev' = EvCall(Ev("clan"), g)
                        /\ UNCHANGED rvars
                   ELSE /\ nmsg' = id
                        /\ card' = [card EXCEPT ![id] = "profile"]
                        /\ react_index' = [react_index EXCEPT ![id] =
                              [kind |-> "entry_from_profile", ver |-> g.rows.ver,
                               idx |-> idx, filters |-> ""]]
                        /\ ev' = [EvCall(Ev("clan"), g) EXCEPT !.sent = id]
    /\ UNCHANGED <<mvars, wvars, hvars, kvars, env, now, sheet, pvars>>

\* daily_recruiters_update: the 14:00 UTC summary, every failure caught
DailyPost(fail, threadFails) ==
    /\ ~Capped
    /\ IF env.RECRUITERS_THREAD_ID = 0 \/ threadFails
       THEN /\ ev' = Ev("daily")
            /\ UNCHANGED <<cache_rows, cache_time, ws, nconn, nfetch, last_clear>>
       ELSE LET g == get_rows(fail)
            IN  /\ AfterGetRows(g)
                /\ ev' = EvCall(Ev("daily"), g)
    /\ UNCHANGED <<mvars, wvars, hvars, kvars, env, now, sheet, rvars, pvars>>

CacheEnvs == {[EnvDefault EXCEPT !.RECRUITERS_THREAD_ID = t, !.LEAD_ROLE_IDS = {ROLE_LEAD}] : t \in {0, 77}}

CacheInit ==
    /\ WelcomeIdle
    /\ MatchIdle /\ CacheIdle /\ ReactIdle /\ PanelIdle /\ HandlersIdle /\ CmdIdle
    /\ env \in CacheEnvs
    /\ ev = Ev("init")

CacheNext ==
    \/ \E dt \in TickSteps : Tick(dt, MaxTime)
    \/ \E v \in 1..Len(Sheets) : SheetEdit(v)
    \/ \E a \in People : ReloadCmd(a)
    \/ \E a \in People, f \in {"none", "connect", "read"} : HealthCmd(a, f)
    \/ \E q \in ClanQueries, f \in SheetFails, rf \in BOOLEAN : ClanCmd(q, f, rf)
    \/ \E f \in SheetFails, tf \in BOOLEAN : DailyPost(f, tf)

SpecCache == CacheInit /\ [][CacheNext]_vars

\* C4: get_rows(False) reads the sheet only when no rows are cached or the
\* cached rows are more than CACHE_TTL seconds old; otherwise it returns the
\* cached rows and changes nothing; the rows it returns were never read more
\* than CACHE_TTL seconds before the call.
C4_CacheTTL ==
    [][ev'.called =>
        /\ ev'.need <=> (cache_rows = NoRows \/ now - cache_time > CACHE_TTL)
        /\ ~ev'.need => /\ ev'.connects = 0 /\ ~ev'.raised
                        /\ <<cache_rows, cache_time, ws, nfetch>>' = <<cache_rows, cache_time, ws, nfetch>>
        /\ ~ev'.raised => /\ cache_rows' # NoRows
                          /\ now - cache_rows'.at <= CACHE_TTL
                          /\ cache_time' = cache_rows'.at
        /\ nfetch' # nfetch => ev'.need]_vars

\* a call exactly CACHE_TTL seconds after the read is served from the cache
C4_Witness ==
    /\ ev.called /\ ~ev.need /\ ~ev.raised
    /\ cache_rows # NoRows /\ now - cache_rows.at = CACHE_TTL

\* C5 as stated: the first get_rows call after clear_cache reads the sheet and
\* reconnects to the worksheet itself, and returns rows read after the clear.
C5_NextCallReconnects ==
    [][(ev'.called /\ last_clear.pending) =>
        /\ ev'.need /\ ev'.connects = 1
        /\ ~ev'.raised => cache_rows'.fid > last_clear.fid]_vars

\* C5 amended: clear_cache drops the rows and the worksheet handle; the first
\* get_rows call after it attempts a read of the sheet whatever the age of the
\* rows cached before, over a worksheet connection made after the clear (by
\* that call, or by a !health handled in between), and no call ever returns
\* rows that were read before the clear.
C5_ReloadFresh ==
    [][/\ (ev'.op = "reload" /\ ev'.allowed) => (cache_rows' = NoRows /\ ws' = 0)
       /\ (ev'.called /\ last_clear.pending) =>
             /\ ev'.need
             /\ ev'.read => ws' > last_clear.conn
             /\ ~ev'.raised => (cache_rows'.ver = sheet /\ cache_rows'.at = now)
       /\ (ev'.called /\ ~ev'.raised) => cache_rows'.fid > last_clear.fid]_vars

\* fresh rows are returned after a reload of rows that were still young
C5_Witness ==
    /\ ev.called /\ ev.first /\ ~ev.raised
    /\ last_clear.fid > 0 /\ cache_rows.fid > last_clear.fid
    /\ now <= CACHE_TTL

HandlerOps == {"reload", "health", "clan"}

BackgroundOps == {"daily"}

PAGE_SIZE == 10
VIEW_TIMEOUT == 1800
MaxPanelTime == 1800
MaxPicks == 1
MaxItx == 2

Users == {1, 2}

\* ClanMatchView.__init__ followed by view.message = sent
NewView(author, variant, spawn, msg) ==
    [author_id |-> author, embed_variant |-> variant, spawn_cmd |-> spawn,
     cb |-> None, hydra |-> None, chimera |-> None, playstyle |-> None,
     cvc |-> None, siege |-> None, roster_mode |-> "open",
     message |-> msg, results_message |-> 0, active_view |-> 0,
     disabled |-> FALSE, stopped |-> FALSE, last_use |-> 0]

FiltersOf(v) ==
    [cb |-> v.cb, hydra |-> v.hydra, chimera |-> v.chimera, playstyle |-> v.playstyle,
     cvc |-> v.cvc, siege |-> v.siege, roster_mode |-> v.roster_mode]

\* the values the selects of the model offer (each a member of its *_CHOICES)
CBPicks == {"Hard"}
HydraPicks == {"Normal"}
ChimeraPicks == {"NM"}
PlaystylePicks == {"Casual"}

FilterSpace ==
    [cb : CBPicks \cup {None}, hydra : HydraPicks \cup {None},
     chimera : ChimeraPicks \cup {None}, playstyle : PlaystylePicks \cup {None},
     cvc : {None, "1", "0"}, siege : {None, "1", "0"},
     roster_mode : {None, "open", "full"}]

\* the loop of search and _maybe_refresh over rows[1:]: indices of the rows kept
search_matches(rows, f) ==
    LET Keep(i) ==
            /\ ~is_header_row(rows[i])
            /\ row_matches(rows[i], f.cb, f.hydra, f.chimera, f.cvc, f.siege, f.playstyle)
            /\ LET spots_num == parse_spots_num(Cell(rows[i], COL_E_SPOTS))
               IN  /\ ~(f.roster_mode = "open" /\ spots_num <= 0)
                   /\ ~(f.roster_mode = "full" /\ spots_num > 0)
    IN  SelectSeq([i \in 1..(Len(rows) - 1) |-> i + 1], Keep)

\* search_matches for each sheet content and filter state of the model (the
\* comparison makes TLC tabulate the function once)
MatchTable ==
    CHOOSE t \in {[v \in 1..Len(Sheets), f \in FilterSpace |-> search_matches(Sheets[v], f)]} :
        t = t

\* what happened in the last event of a panel
PEv(op, u) ==
    [op |-> op, user |-> u, pager |-> 0, rejected |-> FALSE, callback |-> FALSE, escaped |-> FALSE,
     deferred |-> FALSE, called |-> FALSE, raised |-> FALSE, refreshed |-> FALSE,
     responded |-> FALSE, nmatch |-> 0, sent |-> 0, edited |-> FALSE, errtried |-> 0,
     errors |-> 0, notice |-> ""]

\* the owner check with the comparison dropped
interaction_check_open(author_id, user) == TRUE

\* ClanMatchView.interaction_check and PagedResultsView.interaction_check
interaction_check(author_id, user) == user = author_id

\* a click by somebody else on the panel: the ephemeral notice, and the
\* callback is not run; the library may or may not restart the view's timeout
\* before it asks interaction_check (refresh)
Reject(op, u, refresh) ==
    /\ ev' = [PEv(op, u) EXCEPT !.rejected = TRUE, !.notice = "not_yours"]
    /\ view' = [view EXCEPT !.last_use = IF refresh THEN now ELSE @]
    /\ UNCHANGED <<cvars, rvars, panel_shown, nres, results>>

\* _page_embeds(matches, 0, ...) in a message, with the pager or view=None
Cards(ver, rows, pager, author) ==
    [state |-> "cards", ver |-> ver, rows |-> rows, page |-> 0, shown |-> 0,
     pager |-> pager, pdisabled |-> FALSE, pauthor |-> IF pager THEN author ELSE 0,
     twin |-> 0, pused |-> IF pager THEN now ELSE 0, foot |-> ""]

\* the "No matching clans with current filters" edit: embeds=[], view=None
EmptyNote(r) ==
    [r EXCEPT !.state = "empty", !.rows = <<>>, !.page = 0, !.shown = 0,
              !.pager = FALSE, !.pdisabled = FALSE, !.pauthor = 0, !.twin = 0,
              !.pused = 0, !.foot = ""]

\* an edit that leaves every message showing what it showed
SetMsgKeep(res, m, val) == res

\* message m now shows val; a message that shared its pager with m no longer does
SetMsg(res, m, val) ==
    [r \in ResultIds |-> IF r = m THEN val
                         ELSE IF res[r].twin = m THEN [res[r] EXCEPT !.twin = 0]
                         ELSE res[r]]

RefreshFails ==
    {[sheet |-> "none", edit |-> FALSE, send |-> FALSE],
     [sheet |-> "read", edit |-> FALSE, send |-> FALSE],
     [sheet |-> "none", edit |-> TRUE, send |-> FALSE],
     [sheet |-> "none", edit |-> TRUE, send |-> TRUE]}

\* _maybe_refresh without its two early returns: a failing edit of the
\* missing results message is answered by a new message
MaybeRefreshAlways(e, v) ==
    \E rf \in RefreshFails :
    LET g == get_rows(rf.sheet)
        rm == v.results_message
        editOk == rm # 0 /\ results[rm].state # "deleted" /\ ~rf.edit
        e1 == [e EXCEPT !.called = TRUE, !.raised = g.raised, !.refreshed = TRUE]
    IN  /\ AfterGetRows(g)
        /\ IF g.raised
           THEN /\ view' = v /\ ev' = e1
                /\ UNCHANGED <<nres, results>>
           ELSE \E matches \in {MatchTable[g.rows.ver, FiltersOf(v)]} :
                LET paged == Len(matches) > PAGE_SIZE
                    e2 == [e1 EXCEPT !.nmatch = Len(matches)]
                IN  IF matches = <<>>
                    THEN /\ view' = v
                         /\ results' = IF editOk THEN SetMsg(results, rm, EmptyNote(results[rm]))
                                       ELSE results
                         /\ ev' = [e2 EXCEPT !.edited = editOk]
                         /\ UNCHANGED nres
                    ELSE IF editOk
                    THEN /\ view' = [v EXCEPT !.active_view = IF paged THEN rm ELSE 0]
                         /\ results' = SetMsg(results, rm,
                                           Cards(g.rows.ver, matches, paged, v.author_id))
                         /\ ev' = [e2 EXCEPT !.edited = TRUE]
                         /\ UNCHANGED nres
                    ELSE IF rf.send
                    THEN /\ view' = IF paged THEN v ELSE [v EXCEPT !.active_view = 0]
                         /\ ev' = [e2 EXCEPT !.escaped = TRUE]
                         /\ UNCHANGED <<nres, results>>
                    ELSE /\ nres' = nres + 1
                         /\ view' = [v EXCEPT !.results_message = nres + 1,
                                              !.active_view = IF paged THEN nres + 1 ELSE 0]
                         /\ results' = [results EXCEPT ![nres + 1] =
                                           Cards(g.rows.ver, matches, paged, v.author_id)]
                         /\ ev' = [e2 EXCEPT !.sent = 1]

\* _maybe_refresh(itx) on the view v left by the callback
MaybeRefresh(e, v) ==
    IF v.embed_variant # "classic" \/ v.results_message = 0
    THEN /\ view' = v
         /\ ev' = e
         /\ UNCHANGED <<cache_rows, cache_time, ws, nconn, nfetch, last_clear, nres, results>>
    ELSE \E rf \in RefreshFails :
         LET g == get_rows(rf.sheet)
             rm == v.results_message
             editOk == results[rm].state # "deleted" /\ ~rf.edit
             e1 == [e EXCEPT !.called = TRUE, !.raised = g.raised, !.refreshed = TRUE]
         IN  /\ AfterGetRows(g)
             /\ IF g.raised
                THEN /\ view' = v /\ ev' = e1
                     /\ UNCHANGED <<nres, results>>
                ELSE \E matches \in {MatchTable[g.rows.ver, FiltersOf(v)]} :
                     LET paged == Len(matches) > PAGE_SIZE
                         e2 == [e1 EXCEPT !.nmatch = Len(matches)]
                     IN  IF matches = <<>>
                         THEN /\ view' = v
                              /\ results' = IF editOk THEN SetMsg(results, rm, EmptyNote(results[rm]))
                                            ELSE results
                              /\ ev' = [e2 EXCEPT !.edited = editOk]
                              /\ UNCHANGED nres
                         ELSE IF editOk
                         THEN /\ view' = [v EXCEPT !.active_view = IF paged THEN rm ELSE 0]
                              /\ results' = SetMsg(results, rm,
                                                Cards(g.rows.ver, matches, paged, v.author_id))
                              /\ ev' = [e2 EXCEPT !.edited = TRUE]
                              /\ UNCHANGED nres
                         ELSE IF rf.send
                         THEN /\ view' = IF paged THEN v ELSE [v EXCEPT !.active_view = 0]
                              /\ ev' = [e2 EXCEPT !.escaped = TRUE]
                              /\ UNCHANGED <<nres, results>>
                         ELSE /\ nres' = nres + 1
                              /\ view' = [v EXCEPT !.results_message = nres + 1,
                                                   !.active_view = IF paged THEN nres + 1 ELSE 0]
                              /\ results' = [results EXCEPT ![nres + 1] =
                                                Cards(g.rows.ver, matches, paged, v.author_id)]
                              /\ ev' = [e2 EXCEPT !.sent = 1]

PanelCapped == Capped \/ nres >= MaxResults \/ nitx >= MaxItx

\* the number of filters of v that are picked
Picks(v) ==
    Cardinality({k \in {"cb", "hydra", "chimera", "playstyle", "cvc", "siege"} : v[k] # None})

\* a select or toggle callback: the filter change v1, the panel edit
\* (itx.response.edit_message, which may fail), the refresh
FilterChange(op, u, v1) ==
    /\ view.author_id # 0 /\ ~view.stopped
    /\ ~PanelCapped
    /\ Picks(v1) <= MaxPicks
    /\ nitx' = nitx + 1
    /\ IF ~interaction_check(view.author_id, u)
       THEN \E refresh \in BOOLEAN : Reject(op, u, refresh)
       ELSE LET v2 == [v1 EXCEPT !.last_use = now]
                e == [PEv(op, u) EXCEPT !.callback = TRUE]
            IN  /\ UNCHANGED <<nmsg, card, react_index, panel_shown>>
                /\ \/ /\ view' = v2
                      /\ ev' = [e EXCEPT !.escaped = TRUE]
                      /\ UNCHANGED <<cvars, nres, results>>
                   \/ /\ MaybeRefresh(e, v2)
                      /\ UNCHANGED <<now, sheet>>
    /\ UNCHANGED <<mvars, wvars, hvars, kvars, env>>

\* select.values[0] if select.values else None
Picked(values) == IF values = <<>> THEN None ELSE values[1]

cb_select(u, values) ==
    FilterChange("cb_select", u, [view EXCEPT !.cb = Picked(values)])

hydra_select(u, values) ==
    FilterChange("hydra_select", u, [view EXCEPT !.hydra = Picked(values)])

chimera_select(u, values) ==
    FilterChange("chimera_select", u, [view EXCEPT !.chimera = Picked(values)])

playstyle_select(u, values) ==
    FilterChange("playstyle_select", u, [view EXCEPT !.playstyle = Picked(values)])

\* _cycle
cycle(current) == IF current = None THEN "1" ELSE IF current = "1" THEN "0" ELSE None

toggle_cvc(u) ==
    FilterChange("toggle_cvc", u, [view EXCEPT !.cvc = cycle(@)])

toggle_siege(u) ==
    FilterChange("toggle_siege", u, [view EXCEPT !.siege = cycle(@)])

toggle_roster(u) ==
    FilterChange("toggle_roster", u,
                 [view EXCEPT !.roster_mode = IF @ = "open" THEN None
                                              ELSE IF @ = None THEN "full" ELSE "open"])

reset_filters(u) ==
    FilterChange("reset_filters", u,
                 [view EXCEPT !.cb = None, !.hydra = None, !.chimera = None,
                              !.playstyle = None, !.cvc = None, !.siege = None,
                              !.roster_mode = "open"])

\* format_filters_footer; the bullet that joins the parts is written " * "
format_filters_footer(f) ==
    LET parts ==
            (IF Falsy(f.cb) THEN <<>> ELSE <<"CB: " \o f.cb>>)
         \o (IF Falsy(f.hydra) THEN <<>> ELSE <<"Hydra: " \o f.hydra>>)
         \o (IF Falsy(f.chimera) THEN <<>> ELSE <<"Chimera: " \o f.chimera>>)
         \o (IF f.cvc = None THEN <<>> ELSE <<"CvC: " \o (IF f.cvc = "1" THEN "Yes" ELSE "No")>>)
         \o (IF f.siege = None THEN <<>> ELSE <<"Siege: " \o (IF f.siege = "1" THEN "Yes" ELSE "No")>>)
         \o (IF Falsy(f.playstyle) THEN <<>> ELSE <<"Playstyle: " \o f.playstyle>>)
         \o <<"Roster: " \o (IF f.roster_mode = None THEN "All"
                             ELSE IF f.roster_mode = "open" THEN "Open only" ELSE "Full only")>>
        Join[i \in 1..Len(parts)] ==
            IF i = 1 THEN parts[1] ELSE Join[i - 1] \o " * " \o parts[i]
    IN  Join[Len(parts)]

\* what can fail in one run of search: the defer, the sheet, the edit of the
\* results message, the "Results updated." note, the send-th send of a result
\* (or of the no-match notice), the error message
SearchFail(defer, sh, edit, note, send, err) ==
    [defer |-> defer, sheet |-> sh, edit |-> edit, note |-> note, send |-> send, err |-> err]

SearchFails ==
    {SearchFail(FALSE, "none", FALSE, FALSE, 0, FALSE),
     SearchFail(TRUE, "none", FALSE, FALSE, 0, FALSE),
     SearchFail(FALSE, "read", FALSE, FALSE, 0, FALSE),
     SearchFail(FALSE, "read", FALSE, FALSE, 0, TRUE),
     SearchFail(FALSE, "connect", FALSE, FALSE, 0, FALSE),
     SearchFail(FALSE, "none", TRUE, FALSE, 0, FALSE),
     SearchFail(FALSE, "none", TRUE, FALSE, 1, FALSE),
     SearchFail(FALSE, "none", FALSE, TRUE, 0, FALSE),
     SearchFail(FALSE, "none", FALSE, TRUE, 1, FALSE),
     SearchFail(FALSE, "none", FALSE, FALSE, 1, FALSE),
     SearchFail(FALSE, "none", FALSE, FALSE, 1, TRUE),
     SearchFail(FALSE, "none", FALSE, FALSE, 2, FALSE)}

\* search without its except clause: the exception leaves the handler
Reraise(e, sf) == [e EXCEPT !.raised = TRUE, !.escaped = TRUE]

\* the except clause of search with responded False: one error message is
\* tried, and a failure of that send is passed over
Report(e, sf) ==
    [e EXCEPT !.raised = TRUE, !.errtried = 1, !.errors = IF sf.err THEN 0 ELSE 1]

\* no strict match, and every data row of the sheet posted in one message
NoMatchPostsAll(e, v, ver, sf) ==
    /\ view' = [v EXCEPT !.results_message = nres + 1]
    /\ nres' = nres + 1
    /\ results' = [results EXCEPT ![nres + 1] =
                      Cards(ver, [i \in 1..(Len(Sheets[ver]) - 1) |-> i + 1], FALSE, 0)]
    /\ ev' = [e EXCEPT !.sent = 1, !.responded = TRUE]
    /\ UNCHANGED rvars

\* search with no match: "No matching clans found. Try a different combo."
NoMatch(e, v, ver, sf) ==
    /\ view' = v
    /\ ev' = IF sf.send = 1 THEN Report(e, sf)
             ELSE [e EXCEPT !.notice = "no_match", !.responded = TRUE]
    /\ UNCHANGED <<rvars, nres, results>>

\* search, embed_variant "search": one message per match, each registered
SearchCards(e, v, ver, matches, sf) ==
    LET n == Len(matches)
        k == IF sf.send \in 1..n THEN sf.send - 1 ELSE n
        filters_text == format_filters_footer(FiltersOf(v))
        New == (nmsg + 1)..(nmsg + k)
    IN  /\ view' = v
        /\ nmsg' = nmsg + k
        /\ card' = [m \in Msgs |-> IF m \in New THEN "entry" ELSE card[m]]
        /\ react_index' = [m \in Msgs |->
              IF m \in New
              THEN [kind |-> "profile_from_search", ver |-> ver,
                    idx |-> matches[m - nmsg], filters |-> filters_text]
              ELSE react_index[m]]
        /\ ev' = IF k = n THEN [e EXCEPT !.sent = k, !.responded = TRUE]
                 ELSE IF k = 0 THEN Report(e, sf)
                 ELSE [e EXCEPT !.sent = k, !.responded = TRUE, !.raised = TRUE]
        /\ UNCHANGED <<nres, results>>

\* search, embed_variant "classic": the results message is edited in place
\* or, when there is none or the edit or the note after it fails, sent anew
ClassicResults(e, v, ver, matches, sf) ==
    LET paged == Len(matches) > PAGE_SIZE
        rm == v.results_message
        new == nres + 1
        shown == Cards(ver, matches, paged, e.user)
        v0 == IF paged THEN v ELSE [v EXCEPT !.active_view = 0]
        editOk == rm # 0 /\ results[rm].state # "deleted" /\ ~sf.edit
        res1 == IF editOk THEN SetMsg(results, rm, shown) ELSE results
        v1 == IF editOk /\ paged THEN [v0 EXCEPT !.active_view = rm] ELSE v0
        shared == editOk /\ paged
        res2 == IF shared THEN [res1 EXCEPT ![rm].twin = new] ELSE res1
    IN  /\ UNCHANGED rvars
        /\ IF editOk /\ ~sf.note
           THEN /\ view' = v1
                /\ results' = res1
                /\ ev' = [e EXCEPT !.edited = TRUE, !.notice = "updated", !.responded = TRUE]
                /\ UNCHANGED nres
           ELSE IF sf.send = 1
           THEN /\ view' = v1
                /\ results' = res1
                /\ ev' = Report([e EXCEPT !.edited = editOk], sf)
                /\ UNCHANGED nres
           ELSE /\ nres' = new
                /\ view' = [v1 EXCEPT !.results_message = new,
                                      !.active_view = IF paged THEN new ELSE 0]
                /\ results' = [res2 EXCEPT ![new] =
                                  [shown EXCEPT !.twin = IF shared THEN rm ELSE 0]]
                /\ ev' = [e EXCEPT !.edited = editOk, !.sent = 1, !.responded = TRUE]

\* the Search Clans button
search(u) ==
    /\ view.author_id # 0 /\ ~view.stopped
    /\ ~PanelCapped
    /\ nitx' = nitx + 1
    /\ IF ~interaction_check(view.author_id, u)
       THEN \E refresh \in BOOLEAN : Reject("search", u, refresh)
       ELSE \E sf \in SearchFails :
            LET v == [view EXCEPT !.last_use = now]
                e == [PEv("search", u) EXCEPT !.callback = TRUE]
            IN  /\ UNCHANGED panel_shown
                /\ IF /\ Falsy(v.cb) /\ Falsy(v.hydra) /\ Falsy(v.chimera) /\ Falsy(v.cvc)
                      /\ Falsy(v.siege) /\ Falsy(v.playstyle) /\ v.roster_mode = None
                   THEN /\ view' = v
                        /\ ev' = [e EXCEPT !.notice = "pick_one"]
                        /\ UNCHANGED <<cvars, rvars, nres, results>>
                   ELSE IF sf.defer
                   THEN /\ view' = v
                        /\ ev' = [e EXCEPT !.escaped = TRUE]
                        /\ UNCHANGED <<cvars, rvars, nres, results>>
                   ELSE LET g == get_rows(sf.sheet)
                            e1 == [e EXCEPT !.deferred = TRUE, !.called = TRUE]
                        IN  /\ AfterGetRows(g)
                            /\ UNCHANGED <<now, sheet>>
                            /\ IF g.raised
                               THEN /\ view' = v
                                    /\ ev' = Report(e1, sf)
                                    /\ UNCHANGED <<rvars, nres, results>>
                               ELSE \E matches \in {MatchTable[g.rows.ver, FiltersOf(v)]} :
                                    LET e2 == [e1 EXCEPT !.nmatch = Len(matches)]
                                    IN  IF matches = <<>>
                                        THEN NoMatch(e2, v, g.rows.ver, sf)
                                        ELSE IF v.embed_variant = "search"
                                        THEN /\ nmsg + Len(matches) <= MaxMsgs
                                             /\ SearchCards(e2, v, g.rows.ver, matches, sf)
                                        ELSE ClassicResults(e2, v, g.rows.ver, matches, sf)
    /\ UNCHANGED <<mvars, wvars, hvars, kvars, env>>

\* the command on_timeout names in place of the one that spawned the panel
expired_cmd_match(spawn_cmd) == "!clanmatch"

expired_cmd(spawn_cmd) == IF spawn_cmd = "search" THEN "!clansearch" ELSE "!clanmatch"

\* the description of the embed on_timeout puts in the panel message
expired_notice(spawn_cmd) ==
    "This panel expired. Type **" \o expired_cmd(spawn_cmd) \o "** to open a fresh one."

\* ClanMatchView.on_timeout, run by the library once the view was idle for
\* its timeout; the view is stopped after it
on_timeout(editFails) ==
    /\ view.author_id # 0 /\ ~view.stopped
    /\ now - view.last_use >= VIEW_TIMEOUT
    /\ view' = [view EXCEPT !.disabled = TRUE, !.stopped = TRUE]
    /\ panel_shown' = IF view.message # 0 /\ ~editFails
                      THEN expired_notice(view.spawn_cmd) ELSE panel_shown
    /\ ev' = [PEv("on_timeout", 0) EXCEPT !.edited = (view.message # 0 /\ ~editFails),
                                          !.raised = (view.message # 0 /\ editFails)]
    /\ UNCHANGED <<mvars, wvars, hvars, kvars, env, cvars, rvars, nres, results, nitx>>

(***************************************************************************)
(* PagedResultsView: the pager of a results message                        *)
(***************************************************************************)
PAGER_TIMEOUT == 300

\* max(0, math.ceil(len(self.rows) / PAGE_SIZE) - 1)
max_page(rows) ==
    LET c == (Len(rows) + PAGE_SIZE - 1) \div PAGE_SIZE - 1
    IN  IF c > 0 THEN c ELSE 0

PagerLive(r) == results[r].state = "cards" /\ results[r].pager /\ ~results[r].pdisabled

\* the messages that carry the view object of the pager on r
PagerOf(r) == {r} \cup {t \in ResultIds : results[r].twin = t /\ results[t].twin = r}

\* a click by somebody else on a pager
PagerReject(op, u, r, refresh) ==
    /\ ev' = [PEv(op, u) EXCEPT !.pager = r, !.rejected = TRUE, !.notice = "not_yours"]
    /\ results' = [t \in ResultIds |->
                      IF refresh /\ t \in PagerOf(r) THEN [results[t] EXCEPT !.pused = now]
                      ELSE results[t]]
    /\ UNCHANGED <<cvars, rvars, view, panel_shown, nres>>

\* prev_btn and next_btn: the page moves to p, then _edit shows it
Turn(op, u, r, p) ==
    /\ PagerLive(r)
    /\ nitx < MaxItx
    /\ nitx' = nitx + 1
    /\ IF ~interaction_check(results[r].pauthor, u)
       THEN \E refresh \in BOOLEAN : PagerReject(op, u, r, refresh)
       ELSE \E editFails \in BOOLEAN :
            /\ results' = [t \in ResultIds |->
                  IF t = r THEN [results[t] EXCEPT !.page = p, !.pused = now,
                                                   !.shown = IF editFails THEN @ ELSE p,
                                                   !.foot = IF editFails THEN @ ELSE ""]
                  ELSE IF t \in PagerOf(r) THEN [results[t] EXCEPT !.page = p, !.pused = now]
                  ELSE results[t]]
            /\ ev' = [PEv(op, u) EXCEPT !.pager = r, !.callback = TRUE, !.edited = ~editFails,
                                        !.escaped = editFails]
            /\ UNCHANGED <<cvars, rvars, view, panel_shown, nres>>
    /\ UNCHANGED <<mvars, wvars, hvars, kvars, env>>

prev_btn(u, r) ==
    Turn("prev_btn", u, r,
         IF results[r].page > 0 THEN results[r].page - 1 ELSE results[r].page)

next_btn(u, r) ==
    Turn("next_btn", u, r,
         IF results[r].page < max_page(results[r].rows) THEN results[r].page + 1
         ELSE results[r].page)

\* close_btn: the message is deleted or, failing that, shown closed
close_btn(u, r) ==
    /\ PagerLive(r)
    /\ nitx < MaxItx
    /\ nitx' = nitx + 1
    /\ IF ~interaction_check(results[r].pauthor, u)
       THEN \E refresh \in BOOLEAN : PagerReject("close_btn", u, r, refresh)
       ELSE \E deleteFails, editFails \in BOOLEAN :
            /\ results' =
                  IF ~deleteFails
                  THEN SetMsg([t \in ResultIds |->
                                  IF t \in PagerOf(r) THEN [results[t] EXCEPT !.pused = now]
                                  ELSE results[t]],
                              r, [NoResult EXCEPT !.state = "deleted"])
                  ELSE [t \in ResultIds |->
                          IF t = r
                          THEN [results[t] EXCEPT !.pdisabled = TRUE, !.pused = now,
                                   !.shown = IF editFails THEN @ ELSE results[r].page,
                                   !.foot = IF editFails THEN @ ELSE "Panel closed"]
                          ELSE IF t \in PagerOf(r)
                          THEN [results[t] EXCEPT !.pdisabled = TRUE, !.pused = now]
                          ELSE results[t]]
            /\ ev' = [PEv("close_btn", u) EXCEPT !.pager = r, !.callback = TRUE,
                         !.edited = (deleteFails /\ ~editFails),
                         !.escaped = (deleteFails /\ editFails)]
            /\ UNCHANGED <<cvars, rvars, view, panel_shown, nres>>
    /\ UNCHANGED <<mvars, wvars, hvars, kvars, env>>

\* PagedResultsView.on_timeout on the pager whose message attribute is r
pager_timeout(r, editFails) ==
    /\ PagerLive(r)
    /\ \A t \in PagerOf(r) : t <= r
    /\ now - results[r].pused >= PAGER_TIMEOUT
    /\ results' = [t \in ResultIds |->
          IF t = r
          THEN [results[t] EXCEPT !.pdisabled = TRUE,
                   !.shown = IF editFails THEN @ ELSE results[r].page,
                   !.foot = IF editFails THEN @ ELSE "Expired"]
          ELSE IF t \in PagerOf(r) THEN [results[t] EXCEPT !.pdisabled = TRUE]
          ELSE results[t]]
    /\ ev' = [PEv("pager_timeout", 0) EXCEPT !.pager = r, !.edited = ~editFails,
                                             !.raised = editFails]
    /\ UNCHANGED <<mvars, wvars, hvars, kvars, env, cvars, rvars, view, panel_shown, nres, nitx>>

(***************************************************************************)
(* Spec: one panel, its results messages and their pagers                  *)
(***************************************************************************)
PanelTicks == {VIEW_TIMEOUT \div 2}

\* a panel as clanmatch_cmd or clansearch_cmd leaves it
Init ==
    /\ WelcomeIdle
    /\ MatchIdle /\ CacheIdle /\ ReactIdle /\ HandlersIdle /\ CmdIdle
    /\ env = EnvDefault
    /\ \E variant \in {"classic", "search"} :
          view = NewView(1, variant, IF variant = "search" THEN "search" ELSE "match", 1)
    /\ panel_shown = "panel"
    /\ nres = 0
    /\ results = [r \in ResultIds |-> NoResult]
    /\ nitx = 0
    /\ ev = PEv("init", 0)

Next ==
    \/ \E dt \in PanelTicks : Tick(dt, MaxPanelTime)
    \/ \E v \in 1..Len(Sheets) : SheetEdit(v)
    \/ \E u \in Users :
          \/ \E values \in {<<>>} \cup {<<c>> : c \in CBPicks} : cb_select(u, values)
          \/ \E values \in {<<>>} \cup {<<c>> : c \in HydraPicks} : hydra_select(u, values)
          \/ \E values \in {<<>>} \cup {<<c>> : c \in ChimeraPicks} : chimera_select(u, values)
          \/ \E values \in {<<>>} \cup {<<c>> : c \in PlaystylePicks} : playstyle_select(u, values)
          \/ toggle_cvc(u)
          \/ toggle_siege(u)
          \/ toggle_roster(u)
          \/ reset_filters(u)
          \/ search(u)
    \/ \E editFails \in BOOLEAN : on_timeout(editFails)
    \/ \E u \in Users, r \in ResultIds :
          \/ prev_btn(u, r)
          \/ next_btn(u, r)
          \/ close_btn(u, r)
    \/ \E r \in ResultIds, editFails \in BOOLEAN : pager_timeout(r, editFails)

Spec == Init /\ [][Next]_vars

PanelOps ==
    {"cb_select", "hydra_select", "chimera_select", "playstyle_select",
     "toggle_cvc", "toggle_siege", "toggle_roster", "reset_filters", "search"}

PagerOps == {"prev_btn", "next_btn", "close_btn"}

\* C1: a click on the panel or on a pager by a user other than the view's
\* author_id is rejected with the ephemeral notice and runs no callback; it
\* leaves the six filters, the roster mode, the results message, every page
\* index and everything shown as they were; only the author's clicks reach a
\* control callback.
C1_OwnerLocked ==
    [][ev'.op \in PanelOps \cup PagerOps =>
        LET owner == IF ev'.op \in PanelOps THEN view.author_id
                     ELSE results[ev'.pager].pauthor
        IN  /\ ev'.rejected <=> ev'.user # owner
            /\ ev'.callback <=> ev'.user = owner
            /\ ev'.rejected =>
                  /\ ev'.notice = "not_yours"
                  /\ FiltersOf(view') = FiltersOf(view)
                  /\ view'.results_message = view.results_message
                  /\ view'.active_view = view.active_view
                  /\ \A r \in ResultIds :
                        [results'[r] EXCEPT !.pused = 0] = [results[r] EXCEPT !.pused = 0]
                  /\ UNCHANGED <<cache_rows, cache_time, ws, nfetch, rvars, panel_shown, nres>>]_vars

\* somebody else's click on Next of a pager with a second page was rejected
C1_Witness ==
    /\ ev.op = "next_btn" /\ ev.rejected
    /\ results[ev.pager].pager /\ max_page(results[ev.pager].rows) > 0
    /\ results[ev.pager].page = 0

\* C2 as stated: a search whose strict filter keeps no row while a picked
\* value occurs as a substring of some field of some clan row posts rows.
C2_BroadFallback ==
    (ev.op = "search" /\ ev.deferred /\ ~ev.raised /\ ev.nmatch = 0) =>
        LET rows == RowsOf(cache_rows)
            terms == {view.cb, view.hydra, view.chimera, view.playstyle} \ {None}
            Broad == {i \in 2..Len(rows) :
                        \E t \in terms, c \in 1..Len(rows[i]) :
                            StrIn(StrUpper(t), StrUpper(rows[i][c]))}
        IN  Broad # {} => ev.sent > 0

\* C2 amended: there is no fallback; a search whose strict filter (row_matches
\* on the chosen filters plus the roster mode) keeps no row only sends the
\* notice that nothing matched, posts and edits no results and registers no
\* message, a refresh with no row left puts the no-match note in the results
\* message, and the rows a search posts are exactly the rows the strict
\* filter keeps.
C2_NoFallback ==
    [][/\ (ev'.op = "search" /\ ev'.deferred /\ ~ev'.raised /\ ev'.nmatch = 0) =>
             /\ MatchTable[cache_rows'.ver, FiltersOf(view)] = <<>>
             /\ ev'.notice = "no_match" /\ ev'.sent = 0 /\ ~ev'.edited
             /\ view'.results_message = view.results_message
             /\ UNCHANGED <<rvars, nres, results>>
       /\ (ev'.op \in PanelOps /\ ev'.refreshed /\ ~ev'.raised /\ ev'.nmatch = 0) =>
             /\ ev'.sent = 0 /\ UNCHANGED <<rvars, nres>>
             /\ ev'.edited => results'[view.results_message].state = "empty"
       /\ (ev'.op = "search" /\ nres' # nres) =>
             /\ results'[nres'].rows = MatchTable[cache_rows'.ver, FiltersOf(view)]
             /\ results'[nres'].rows # <<>>
       /\ (ev'.op = "search" /\ nmsg' # nmsg) =>
             \A m \in (nmsg + 1)..nmsg' :
                 \E k \in 1..Len(MatchTable[cache_rows'.ver, FiltersOf(view)]) :
                     react_index'[m].idx = MatchTable[cache_rows'.ver, FiltersOf(view)][k]]_vars

\* a search for Chimera NM found nothing although a clan lists NM for the clan boss
C2_Witness ==
    /\ ev.op = "search" /\ ev.notice = "no_match" /\ ev.nmatch = 0
    /\ view.chimera = "NM"
    /\ \E i \in 2..Len(RowsOf(cache_rows)) : StrIn("NM", Cell(RowsOf(cache_rows)[i], COL_P_CB))

\* C6: on_timeout runs only on a panel idle for the view's timeout; it
\* disables the controls and, the panel message being known, edits it to the
\* expired notice naming !clansearch for a panel spawned by search and
\* !clanmatch otherwise; it changes no filter, and a failure of the edit
\* stays inside on_timeout.
C6_Timeout ==
    [][ev'.op = "on_timeout" =>
        /\ now - view.last_use >= VIEW_TIMEOUT
        /\ view'.disabled
        /\ FiltersOf(view') = FiltersOf(view)
        /\ view'.results_message = view.results_message
        /\ ~ev'.escaped
        /\ view.message # 0 => (ev'.edited \/ ev'.raised)
        /\ ev'.edited =>
              panel_shown' = "This panel expired. Type **"
                             \o (IF view.spawn_cmd = "search" THEN "!clansearch" ELSE "!clanmatch")
                             \o "** to open a fresh one."
        /\ ~ev'.edited => panel_shown' = panel_shown]_vars

\* a panel spawned by !clansearch expired with a filter picked
C6_Witness ==
    /\ ev.op = "on_timeout" /\ ev.edited
    /\ view.spawn_cmd = "search" /\ view.disabled
    /\ Picks(view) > 0

\* C8 as stated: whenever search raises after the defer and before a result
\* was sent, exactly one error message reaches the user.
C8_ExactlyOneError ==
    (ev.op = "search" /\ ev.deferred /\ ev.raised /\ ~ev.responded) => ev.errors = 1

\* C8 amended: once deferred, search lets no exception escape; when it raises
\* before a result was sent, exactly one error message is tried (it reaches
\* the user unless that send fails too, which is passed over) and the filters
\* and results_message are what they were before the click; when a result was
\* sent, or nothing raised, no error message is tried.
C8_CatchAndReport ==
    [][(ev'.op = "search" /\ ev'.callback) =>
        /\ ev'.deferred => ~ev'.escaped
        /\ (ev'.raised /\ ~ev'.responded) =>
              /\ ev'.deferred
              /\ ev'.errtried = 1 /\ ev'.errors \in {0, 1}
              /\ FiltersOf(view') = FiltersOf(view)
              /\ view'.results_message = view.results_message
              /\ UNCHANGED <<rvars, nres>>
        /\ (ev'.responded \/ ~ev'.raised) => (ev'.errtried = 0 /\ ev'.errors = 0)
        /\ FiltersOf(view') = FiltersOf(view)]_vars

\* a search on a panel that has a results message failed to edit it and to
\* send a new one, and reported the error
C8_Witness ==
    /\ ev.op = "search" /\ ev.deferred /\ ev.raised /\ ~ev.responded
    /\ ev.errtried = 1 /\ ev.errors = 1
    /\ view.results_message # 0

\* C15 as stated: on a classic panel a Search or a filter-change refresh that
\* finds matches and whose edit of results_message succeeds shows the matches
\* in that message and posts no new results message; a new results message is
\* posted only when none exists yet or the edit fails, and results_message
\* (and, when paginated, the pager's message) then refers to the new message.
C15_NewOnlyIfEditFails ==
    [][(ev'.op \in PanelOps /\ ev'.callback /\ ev'.nmatch > 0
          /\ view.embed_variant = "classic") =>
        LET rm == view.results_message
        IN  /\ (rm # 0 /\ ev'.edited) =>
                  /\ results'[rm].state = "cards" /\ Len(results'[rm].rows) = ev'.nmatch
                  /\ ev'.sent = 0
                  /\ nres' = nres /\ view'.results_message = rm
            /\ ev'.sent > 0 =>
                  /\ rm = 0 \/ ~ev'.edited
                  /\ ev'.sent = 1 /\ nres' = nres + 1
                  /\ view'.results_message = nres'
                  /\ results'[nres'].state = "cards"
                  /\ results'[nres'].pager => view'.active_view = nres']_vars

\* C15, amended: the edit in place shows the matches in results_message, and
\* results_message stays that message unless a new one is posted; a new
\* results message is posted only when none exists yet, or the edit fails,
\* or, in Search, the "Results updated." note that follows the edit fails;
\* results_message (and, when paginated, the pager's message) then refers to
\* the new message.
C15_SingleResultsMessage ==
    [][(ev'.op \in PanelOps /\ ev'.callback /\ ev'.nmatch > 0
          /\ view.embed_variant = "classic") =>
        LET rm == view.results_message
        IN  /\ (rm # 0 /\ ev'.edited) =>
                  /\ results'[rm].state = "cards" /\ Len(results'[rm].rows) = ev'.nmatch
                  /\ ev'.sent = 0 => (nres' = nres /\ view'.results_message = rm)
            /\ ev'.sent > 0 =>
                  /\ \/ rm = 0
                     \/ ~ev'.edited
                     \/ ev'.op = "search" /\ ev'.notice # "updated"
                  /\ ev'.sent = 1 /\ nres' = nres + 1
                  /\ view'.results_message = nres'
                  /\ results'[nres'].state = "cards"
                  /\ results'[nres'].pager => view'.active_view = nres']_vars

\* a Search edited the results message in place, its "Results updated." note
\* failed, and the same results were posted again in a second message
C15_Witness ==
    /\ ev.op = "search" /\ ev.edited /\ ev.sent = 1 /\ ev.notice # "updated"
    /\ view.embed_variant = "classic" /\ view.results_message = 2
    /\ results[1].state = "cards" /\ results[2].state = "cards"
    /\ results[1].rows = results[2].rows

\* C16: a filter change (a select, a toggle, Reset) refreshes results only on
\* a classic panel that already has a results message; on a "search" panel,
\* and on a classic panel that has no results message yet, the callback
\* reads no rows (cache and worksheet connection untouched), posts no
\* message and edits no results message.
C16_RefreshNeedsResults ==
    [][(ev'.op \in PanelOps \ {"search"} /\ ev'.callback) =>
        /\ ev'.refreshed => (view.embed_variant = "classic" /\ view.results_message # 0)
        /\ (view.embed_variant # "classic" \/ view.results_message = 0) =>
              /\ ~ev'.called /\ ~ev'.refreshed
              /\ ev'.sent = 0 /\ ~ev'.edited
              /\ view'.results_message = view.results_message
              /\ UNCHANGED <<cache_rows, cache_time, ws, nconn, nfetch, last_clear>>
              /\ UNCHANGED <<nres, results, nmsg, card, react_index>>]_vars

\* on a "search" panel whose Search has posted cards, a filter was changed
\* and nothing was read or posted
C16_Witness ==
    /\ ev.op \in PanelOps \ {"search"} /\ ev.callback /\ ~ev.escaped
    /\ ~ev.called /\ ~ev.refreshed /\ ev.sent = 0
    /\ view.embed_variant = "search" /\ view.results_message = 0
    /\ nmsg > 0 /\ FiltersOf(view) # FiltersOf(NewView(1, "search", "search", 1))


(***************************************************************************)
(* Reaction flip: on_raw_reaction_add, one step per stretch between awaits *)
(***************************************************************************)
ReactOps == {"on_raw_reaction_add", "reaction_fetched", "reaction_edited"}

\* a RawReactionActionEvent: in a guild or not, by the bot itself or not
Payload(guild, self, emoji, message_id) ==
    [guild |-> guild, self |-> self, emoji |-> emoji, message_id |-> message_id]

Payloads ==
    {Payload(g, s, e, m) : g \in BOOLEAN, s \in BOOLEAN, e \in {"bulb", "other"}, m \in Msgs}

\* what happened in the last step of a reaction handler
REv(op, h, m) ==
    [op |-> op, h |-> h, msg |-> m, ignored |-> FALSE, done |-> FALSE, flipped |-> FALSE,
     alone |-> FALSE, second |-> FALSE]

\* the card the handler builds for the kind it read
card_for(kind) == IF kind = "entry_from_profile" THEN "entry" ELSE "profile"

\* the handler without its assignment to info["kind"]
kind_kept(kind) == kind

\* the kind the handler stores after the edit
kind_after(kind) ==
    IF kind = "entry_from_profile" THEN "profile_from_search" ELSE "entry_from_profile"

\* on_raw_reaction_add up to the await of fetch_message
on_raw_reaction_add(h, p) ==
    /\ rh[h].pc = "idle"
    /\ \A g \in Handlers : g < h => rh[g].pc # "idle"
    /\ LET m == p.message_id
           e == REv("on_raw_reaction_add", h, m)
       IN  IF ~p.guild \/ p.self \/ p.emoji # "bulb" \/ react_index[m] = NoInfo
           THEN /\ ev' = [e EXCEPT !.ignored = TRUE, !.done = TRUE]
                /\ UNCHANGED <<hvars, nitx>>
           ELSE /\ nitx < MaxItx
                /\ nitx' = nitx + 1
                /\ rh' = [g \in Handlers |->
                            IF g = h
                            THEN [pc |-> "fetch", msg |-> m, kind |-> "",
                                  alone |-> \A o \in Handlers : rh[o].pc = "idle" \/ rh[o].msg # m]
                            ELSE IF rh[g].pc # "idle" /\ rh[g].msg = m
                            THEN [rh[g] EXCEPT !.alone = FALSE]
                            ELSE rh[g]]
                /\ ev' = e
                /\ UNCHANGED flipped_from
    /\ UNCHANGED <<mvars, wvars, kvars, env, cvars, rvars, view, panel_shown, nres, results>>

\* fetch_message returns (or raises): the kind is read and the edit is sent
reaction_fetched(h, fetchFails) ==
    /\ rh[h].pc = "fetch"
    /\ LET m == rh[h].msg
           e == [REv("reaction_fetched", h, m) EXCEPT !.alone = rh[h].alone]
       IN  IF fetchFails
           THEN /\ rh' = [rh EXCEPT ![h] = NoRun]
                /\ ev' = [e EXCEPT !.done = TRUE]
           ELSE /\ rh' = [rh EXCEPT ![h].pc = "edit", ![h].kind = react_index[m].kind]
                /\ ev' = e
    /\ UNCHANGED <<mvars, wvars, kvars, env, cvars, rvars, pvars, flipped_from>>

\* msg.edit returns (or raises): the kind is flipped
reaction_edited(h, editFails) ==
    /\ rh[h].pc = "edit"
    /\ LET m == rh[h].msg
           e == [REv("reaction_edited", h, m) EXCEPT !.done = TRUE, !.alone = rh[h].alone]
       IN  IF editFails
           THEN /\ ev' = e
                /\ UNCHANGED <<rvars, flipped_from>>
           ELSE /\ card' = [card EXCEPT ![m] = card_for(rh[h].kind)]
                /\ react_index' = [react_index EXCEPT ![m].kind = kind_after(rh[h].kind)]
                /\ flipped_from' = [flipped_from EXCEPT ![m] =
                                       IF rh[h].alone THEN card[m] ELSE "none"]
                /\ ev' = [e EXCEPT !.flipped = TRUE, !.second = (flipped_from[m] # "none")]
                /\ UNCHANGED nmsg
    /\ rh' = [rh EXCEPT ![h] = NoRun]
    /\ UNCHANGED <<mvars, wvars, kvars, env, cvars, pvars>>

\* the card a search of a !clansearch panel with its first filters posted for
\* the first clan of the sheet, as SearchCards registers it
SearchCard ==
    [kind |-> "profile_from_search", ver |-> 1, idx |-> 2,
     filters |-> format_filters_footer(FiltersOf(NewView(1, "search", "search", 1)))]

\* no message yet, or the card of an earlier search
ReactInit ==
    /\ WelcomeIdle
    /\ MatchIdle /\ CacheIdle /\ PanelIdle /\ HandlersIdle /\ CmdIdle
    /\ env = EnvDefault
    /\ nmsg \in {0, 1}
    /\ card = [m \in Msgs |-> IF m <= nmsg THEN "entry" ELSE "none"]
    /\ react_index = [m \in Msgs |-> IF m <= nmsg THEN SearchCard ELSE NoInfo]
    /\ ev = REv("init", 0, 0)

ReactNext ==
    \/ \E rf \in BOOLEAN : ClanCmd("c1ce", "none", rf)
    \/ \E h \in Handlers, p \in Payloads : on_raw_reaction_add(h, p)
    \/ \E h \in Handlers, fetchFails \in BOOLEAN : reaction_fetched(h, fetchFails)
    \/ \E h \in Handlers, editFails \in BOOLEAN : reaction_edited(h, editFails)

SpecReact == ReactInit /\ [][ReactNext]_vars

C17_ConcurrentAsSuccessive ==
    [][(ev'.op = "reaction_edited" /\ ev'.flipped /\ ~ev'.alone) =>
        LET m == ev'.msg
        IN  /\ card'[m] = (IF card[m] = "entry" THEN "profile" ELSE "entry")
            /\ react_index'[m].kind = kind_after(react_index[m].kind)]_vars

(***************************************************************************)
(* Commands: panels                                                        *)
(***************************************************************************)
Channels == {"general", "fixed"}

\* what can fail in one run of a panel command: the fetch of the configured
\* thread, its unarchiving, the fetch or edit of the old panel, the send
CmdFail(fetch, unarchive, old, send) ==
    [fetch |-> fetch, unarchive |-> unarchive, old |-> old, send |-> send]

CmdFails ==
    {CmdFail(FALSE, FALSE, FALSE, FALSE), CmdFail(TRUE, FALSE, FALSE, FALSE),
     CmdFail(FALSE, TRUE, FALSE, FALSE), CmdFail(FALSE, FALSE, TRUE, FALSE),
     CmdFail(FALSE, FALSE, FALSE, TRUE)}

\* what happened in the last panel command
KEv(op, a, chan) ==
    [op |-> op, user |-> a, chan |-> chan, refused |-> "", resolved |-> FALSE,
     fetchfail |-> FALSE, target |-> None, sent |-> 0, edited |-> 0, escaped |-> FALSE]

\* _allowed_recruiter reading LEAD_ROLE_IDS where it reads RECRUITER_ROLE_IDS
allowed_recruiter_lead(member) ==
    \/ has_role_id(member, env.LEAD_ROLE_IDS)
    \/ is_admin_perm(member)
    \/ has_role_id(member, env.ADMIN_ROLE_IDS)

allowed_recruiter(member) ==
    \/ has_role_id(member, env.RECRUITER_ROLE_IDS)
    \/ is_admin_perm(member)
    \/ has_role_id(member, env.ADMIN_ROLE_IDS)

\* _resolve_recruiter_panel_channel: the channel for the panel, None for none
resolve_recruiter_panel_channel(chan, f) ==
    IF env.PANEL_THREAD_MODE # "fixed" \/ env.PANEL_FIXED_THREAD_ID = 0
    THEN chan
    ELSE IF f.fetch \/ thread = "missing" THEN None
    ELSE IF thread \in {"thread", "archived"} THEN "fixed"
    ELSE None

\* the old panel of the key is edited in place or a new panel is sent
OpenPanel(e, a, target, variant, f) ==
    LET key == <<a.id, variant>>
        old_id == active_panels[key]
        new == npanel + 1
    IN  IF /\ old_id # 0 /\ panels[old_id].state = "panel"
           /\ panels[old_id].chan = target /\ ~f.old
        THEN /\ ev' = [e EXCEPT !.edited = old_id]
             /\ UNCHANGED <<active_panels, npanel, panels>>
        ELSE IF f.send
        THEN /\ ev' = [e EXCEPT !.escaped = TRUE]
             /\ UNCHANGED <<active_panels, npanel, panels>>
        ELSE /\ npanel' = new
             /\ panels' = [panels EXCEPT ![new] =
                              [state |-> "panel", chan |-> target, author |-> a.id,
                               variant |-> variant]]
             /\ active_panels' = [active_panels EXCEPT ![key] = new]
             /\ ev' = [e EXCEPT !.sent = new]

\* !clanmatch
clanmatch_cmd(a, extra, chan) ==
    /\ npanel < MaxPanels
    /\ LET e == KEv("clanmatch", a.id, chan)
       IN  IF StrStrip(extra) # ""
           THEN /\ ev' = [e EXCEPT !.refused = "usage"]
                /\ UNCHANGED kvars
           ELSE IF ~a.member \/ ~allowed_recruiter(a)
           THEN /\ ev' = [e EXCEPT !.refused = "role"]
                /\ UNCHANGED kvars
           ELSE \E f \in CmdFails :
                LET target_chan == resolve_recruiter_panel_channel(chan, f)
                    e1 == [e EXCEPT !.resolved = TRUE, !.target = target_chan,
                                    !.fetchfail = f.fetch]
                IN  /\ thread' = IF target_chan = "fixed" /\ target_chan # chan
                                    /\ thread = "archived" /\ ~f.unarchive
                                 THEN "thread" ELSE thread
                    /\ IF target_chan = None
                       THEN /\ ev' = [e1 EXCEPT !.refused = "thread"]
                            /\ UNCHANGED <<active_panels, npanel, panels>>
                       ELSE OpenPanel(e1, a, target_chan, "classic", f)
    /\ UNCHANGED <<mvars, wvars, hvars, env, cvars, rvars, pvars>>

\* !clansearch
clansearch_cmd(a, extra, chan) ==
    /\ npanel < MaxPanels
    /\ LET e == KEv("clansearch", a.id, chan)
       IN  IF StrStrip(extra) # ""
           THEN /\ ev' = [e EXCEPT !.refused = "usage"]
                /\ UNCHANGED <<active_panels, npanel, panels>>
           ELSE \E f \in CmdFails : OpenPanel([e EXCEPT !.target = chan], a, chan, "search", f)
    /\ UNCHANGED <<mvars, wvars, hvars, env, cvars, rvars, pvars, thread>>

\* somebody deletes a panel message
PanelDeleted(k) ==
    /\ panels[k].state = "panel"
    /\ panels' = [panels EXCEPT ![k].state = "deleted"]
    /\ ev' = KEv("deleted", 0, panels[k].chan)
    /\ UNCHANGED <<mvars, wvars, hvars, env, cvars, rvars, pvars, active_panels, npanel, thread>>

CmdEnvs ==
    {[EnvDefault EXCEPT !.PANEL_THREAD_MODE = mode, !.PANEL_FIXED_THREAD_ID = id,
                        !.RECRUITER_ROLE_IDS = {ROLE_RECRUITER}] :
        mode \in {"same", "fixed"}, id \in {0, THREAD_ID}}

CmdInit ==
    /\ WelcomeIdle
    /\ MatchIdle /\ CacheIdle /\ ReactIdle /\ HandlersIdle /\ PanelIdle
    /\ env \in CmdEnvs
    /\ active_panels = [k \in PanelKeys |-> 0]
    /\ npanel = 0
    /\ panels = [k \in PanelIds |-> NoPanel]
    /\ thread \in IF env.PANEL_FIXED_THREAD_ID = 0 THEN {"missing"}
                  ELSE {"thread", "archived", "channel", "missing"}
    /\ ev = KEv("init", 0, "")

CmdNext ==
    \/ \E a \in CmdPeople, extra \in {"", " C1CE"}, chan \in Channels :
          \/ clanmatch_cmd(a, extra, chan)
          \/ clansearch_cmd(a, extra, chan)
    \/ \E k \in PanelIds : PanelDeleted(k)

SpecCmd == CmdInit /\ [][CmdNext]_vars

\* C10 as stated: in fixed mode the channel resolved for !clanmatch is the
\* configured thread or None, None exactly when the configured id cannot be
\* fetched or is not a thread, and on None no panel is sent or edited,
\* ACTIVE_PANELS stays as it was and the error reply is sent.
C10_FixedNeverFallsBack ==
    [][(ev'.op = "clanmatch" /\ ev'.resolved /\ env.PANEL_THREAD_MODE = "fixed") =>
        /\ ev'.target \in {"fixed", None}
        /\ ev'.target = None <=> (ev'.fetchfail \/ thread \notin {"thread", "archived"})
        /\ ev'.target = None =>
              /\ ev'.refused = "thread" /\ ev'.sent = 0 /\ ev'.edited = 0
              /\ UNCHANGED <<active_panels, npanel, panels>>]_vars

\* the panel messages of a (user, variant) pair that exist
PanelsOf(ps, key) ==
    {k \in PanelIds : ps[k].state = "panel" /\ ps[k].author = key[1] /\ ps[k].variant = key[2]}

\* C14 as stated: a panel command that finds a panel recorded in ACTIVE_PANELS
\* for its user and variant edits that message and sends no new one; a new
\* panel is sent, and recorded, only when none is recorded; so no (user,
\* variant) pair ever has two panel messages.
C14_OnePanelPerKey ==
    [][(ev'.op \in {"clanmatch", "clansearch"} /\ ev'.refused = "") =>
        LET key == <<ev'.user, IF ev'.op = "clanmatch" THEN "classic" ELSE "search">>
        IN  /\ active_panels[key] # 0 => (ev'.edited = active_panels[key] /\ ev'.sent = 0)
            /\ ev'.sent # 0 => (active_panels[key] = 0 /\ active_panels'[key] = ev'.sent)
            /\ \A k \in PanelKeys : Cardinality(PanelsOf(panels', k)) <= 1]_vars

(***************************************************************************)
(* Welcome cog (welcome.py): templates, _effective_row, !welcome           *)
(***************************************************************************)
\* the rows of the welcome tab as get_rows hands them over, in some of the
\* contents the tab can have: with and without the default C1C row
RawC1C ==
    [TAG |-> "c1c", TARGET_CHANNEL_ID |-> "", TITLE |-> "Welcome to {CLAN}",
     BODY |-> "Hi {MENTION}", FOOTER |-> "C1C", CREST_URL |-> "", PING_USER |-> " y ",
     ACTIVE |-> "N", CLANLEAD |-> "", DEPUTIES |-> "", GENERAL_NOTICE |-> "New: {MENTION}"]

RawElders ==
    [TAG |-> " c1ce ", TARGET_CHANNEL_ID |-> " 111 ", TITLE |-> "Elders", BODY |-> "Elders body",
     FOOTER |-> "Elders foot", CREST_URL |-> "e.png", PING_USER |-> "N", ACTIVE |-> "y",
     CLANLEAD |-> "Ann", DEPUTIES |-> "Bob", GENERAL_NOTICE |-> ""]

RawMartyrs ==
    [TAG |-> "C1CM", TARGET_CHANNEL_ID |-> "222", TITLE |-> "Martyrs", BODY |-> "",
     FOOTER |-> "", CREST_URL |-> "m.png", PING_USER |-> "", ACTIVE |-> "",
     CLANLEAD |-> "Cy", DEPUTIES |-> "", GENERAL_NOTICE |-> "unused"]

RawVikings ==
    [TAG |-> "C1CV", TARGET_CHANNEL_ID |-> "33a", TITLE |-> "Vikings", BODY |-> "Vikings body",
     FOOTER |-> "", CREST_URL |-> "", PING_USER |-> "Y", ACTIVE |-> "Y",
     CLANLEAD |-> "", DEPUTIES |-> "", GENERAL_NOTICE |-> ""]

RawBlank == [RawElders EXCEPT !.TAG = "  "]

TemplateSheets ==
    << <<RawC1C, RawElders, RawMartyrs, RawVikings, RawBlank>>,
       <<RawElders, RawMartyrs, [RawVikings EXCEPT !.TARGET_CHANNEL_ID = ""]>>,
       <<[RawElders EXCEPT !.ACTIVE = "no"], RawC1C, [RawMartyrs EXCEPT !.ACTIVE = "Y"]>> >>

\* cache.get(key) is None, default_row is None
NoTemplate == [TAG |-> None]

\* the keys the cache can hold and a lookup can ask for
TagKeys == {"C1C", "C1CE", "C1CM", "C1CV", "ZZZ"}

\* the row reload_templates builds from a sheet row
template_row(r) ==
    [TAG |-> StrUpper(StrStrip(r.TAG)),
     TARGET_CHANNEL_ID |-> StrStrip(r.TARGET_CHANNEL_ID),
     TITLE |-> OrEmpty(r.TITLE), BODY |-> OrEmpty(r.BODY), FOOTER |-> OrEmpty(r.FOOTER),
     CREST_URL |-> StrStrip(r.CREST_URL),
     PING_USER |-> (StrUpper(StrStrip(r.PING_USER)) = "Y"),
     ACTIVE |-> (StrUpper(StrStrip(r.ACTIVE)) = "Y"),
     CLANLEAD |-> OrEmpty(r.CLANLEAD), DEPUTIES |-> OrEmpty(r.DEPUTIES),
     GENERAL_NOTICE |-> OrEmpty(r.GENERAL_NOTICE)]

\* the last row of rows whose key is k, None if there is none
LastRow(rows, k) ==
    LET Idx == {i \in 1..Len(rows) :
                   StrStrip(rows[i].TAG) # "" /\ StrUpper(StrStrip(rows[i].TAG)) = k}
    IN  IF Idx = {} THEN NoTemplate
        ELSE template_row(rows[CHOOSE i \in Idx : \A j \in Idx : j <= i])

\* cache and default_row as the loop of reload_templates leaves them
LoadedCache(rows) == [k \in TagKeys |-> IF k = "C1C" THEN NoTemplate ELSE LastRow(rows, k)]

LoadedDefault(rows) == LastRow(rows, "C1C")

\* what reload_templates loads from each content of the tab (the comparison
\* makes TLC tabulate the function once)
LoadedTemplates ==
    CHOOSE t \in {[v \in 1..Len(TemplateSheets) |->
                      [cache |-> LoadedCache(TemplateSheets[v]),
                       default_row |-> LoadedDefault(TemplateSheets[v])]]} : t = t

\* Welcome.__init__
NewCog(enabled_default, allowed_role_ids, general_channel_id) ==
    [loaded |-> TRUE, enabled_default |-> enabled_default, enabled_override |-> None,
     allowed_role_ids |-> allowed_role_ids, general_channel_id |-> general_channel_id,
     cache |-> [k \in TagKeys |-> NoTemplate], default_row |-> NoTemplate]

\* the enabled property; the override is None, "True" or "False"
enabled(c) ==
    IF c.enabled_override # None THEN c.enabled_override = "True" ELSE c.enabled_default

\* _effective_row without the merge: an inactive clan row is used as it is
effective_row_unmerged(c, tag) ==
    LET key == StrUpper(tag)
        clan == c.cache[key]
    IN  IF clan # NoTemplate /\ clan.ACTIVE THEN clan
        ELSE IF clan # NoTemplate /\ c.default_row # NoTemplate THEN clan
        ELSE NoTemplate

\* _effective_row
effective_row(c, tag) ==
    LET key == StrUpper(tag)
        clan == c.cache[key]
    IN  IF clan # NoTemplate /\ clan.ACTIVE THEN clan
        ELSE IF clan # NoTemplate /\ c.default_row # NoTemplate
        THEN [clan EXCEPT !.TITLE = c.default_row.TITLE, !.BODY = c.default_row.BODY,
                          !.FOOTER = c.default_row.FOOTER,
                          !.PING_USER = c.default_row.PING_USER]
        ELSE NoTemplate

\* _has_permission
has_permission(c, member) ==
    IF c.allowed_role_ids = {} THEN TRUE
    ELSE member.roles \cap c.allowed_role_ids # {}

\* str.isdigit, for the ASCII text of the model's sheets
isdigit(s) == s # "" /\ \A i \in 1..Len(s) : IsDigit(Ch(s, i))

GENERAL_ID == 900

WelcomePeople == {Person(5, TRUE, FALSE, {ROLE_RECRUITER}), Person(3, TRUE, FALSE, {})}

\* the clan tags typed after !welcome
WelcomeTags == {"c1ce", "C1CM", "c1cv", "C1C", "zzz"}

\* what happened in the last command of the cog: the log_to_channel calls, the
\* reply, the template used, the messages posted, an exception that escaped
WEv(op, a, tag) ==
    [op |-> op, user |-> a, tag |-> tag, logs |-> 0, level |-> "", replied |-> FALSE,
     eff |-> NoTemplate, clan |-> FALSE, general |-> FALSE, escaped |-> FALSE, cause |-> ""]

\* log_to_channel followed by `return await ctx.reply(...)`
LogReply(e, level, cause) ==
    [e EXCEPT !.logs = @ + 1, !.level = level, !.replied = TRUE, !.cause = cause]

\* what can fail in one run of !welcome: resolving the clan channel, the send
\* to it, the fetch of the general channel, the send to it, deleting the command
WelcomeFail(resolve, send, gfetch, gsend, delete) ==
    [resolve |-> resolve, send |-> send, gfetch |-> gfetch, gsend |-> gsend, delete |-> delete]

WelcomeFails ==
    {WelcomeFail(FALSE, FALSE, FALSE, FALSE, FALSE), WelcomeFail(TRUE, FALSE, FALSE, FALSE, FALSE),
     WelcomeFail(FALSE, TRUE, FALSE, FALSE, FALSE), WelcomeFail(FALSE, FALSE, TRUE, FALSE, FALSE),
     WelcomeFail(FALSE, FALSE, FALSE, TRUE, FALSE), WelcomeFail(FALSE, FALSE, FALSE, FALSE, TRUE)}

\* fetch_channel raising at line 290: nothing catches it
resolve_raises(e) == [e EXCEPT !.escaped = TRUE, !.cause = "resolve"]

\* _send_general_notice and the cleanup, after the clan embed was sent
AfterClanSend(e, tag, f) ==
    LET e1 == IF cog.general_channel_id = 0 THEN [e EXCEPT !.logs = @ + 1, !.level = "INFO"]
              ELSE IF f.gfetch \/ f.gsend THEN [e EXCEPT !.logs = @ + 1, !.level = "WARN"]
              ELSE [e EXCEPT !.general = TRUE]
        e2 == IF f.delete THEN [e1 EXCEPT !.logs = @ + 1, !.level = "WARN"] ELSE e1
    IN  /\ ev' = e2
        /\ posted' = posted \cup {<<e.eff.TARGET_CHANNEL_ID, tag>>}
                            \cup (IF e1.general THEN {<<"general", tag>>} ELSE {})

\* !welcome <clantag>
welcome(a, clantag) ==
    /\ cog.loaded
    /\ LET tag == StrUpper(clantag)
           e == WEv("welcome", a.id, tag)
           eff == effective_row(cog, tag)
       IN  IF ~enabled(cog)
           THEN ev' = LogReply(e, "INFO", "off") /\ UNCHANGED posted
           ELSE IF ~has_permission(cog, a)
           THEN ev' = LogReply(e, "ERROR", "permission") /\ UNCHANGED posted
           ELSE IF eff = NoTemplate
           THEN ev' = LogReply(e, "ERROR", "row") /\ UNCHANGED posted
           ELSE IF ~isdigit(eff.TARGET_CHANNEL_ID)
           THEN ev' = LogReply([e EXCEPT !.eff = eff], "ERROR", "channel id") /\ UNCHANGED posted
           ELSE \E f \in WelcomeFails :
                LET e1 == [e EXCEPT !.eff = eff]
                IN  IF f.resolve
                    THEN ev' = resolve_raises(e1) /\ UNCHANGED posted
                    ELSE IF f.send
                    THEN ev' = LogReply(e1, "ERROR", "send") /\ UNCHANGED posted
                    ELSE AfterClanSend([e1 EXCEPT !.clan = TRUE], tag, f)
    /\ UNCHANGED <<mvars, hvars, kvars, env, cvars, rvars, pvars, cog>>

\* !welcome-refresh: reload_templates
welcome_refresh(a, v, sheetFails) ==
    /\ cog.loaded
    /\ LET e == WEv("welcome-refresh", a.id, "")
       IN  IF ~has_permission(cog, a)
           THEN ev' = LogReply(e, "ERROR", "permission") /\ UNCHANGED cog
           ELSE IF sheetFails
           THEN ev' = LogReply(e, "ERROR", "sheet") /\ UNCHANGED cog
           ELSE /\ cog' = [cog EXCEPT !.cache = LoadedTemplates[v].cache,
                                      !.default_row = LoadedTemplates[v].default_row]
                /\ ev' = LogReply(e, "INFO", "")
    /\ UNCHANGED <<mvars, hvars, kvars, env, cvars, rvars, pvars, posted>>

\* !welcome-on and !welcome-off
welcome_switch(a, on) ==
    /\ cog.loaded
    /\ LET e == WEv(IF on THEN "welcome-on" ELSE "welcome-off", a.id, "")
       IN  IF ~has_permission(cog, a)
           THEN ev' = [e EXCEPT !.replied = TRUE, !.cause = "permission"] /\ UNCHANGED cog
           ELSE /\ cog' = [cog EXCEPT !.enabled_override = IF on THEN "True" ELSE "False"]
                /\ ev' = LogReply(e, "INFO", "")
    /\ UNCHANGED <<mvars, hvars, kvars, env, cvars, rvars, pvars, posted>>

WelcomeInit ==
    /\ MatchIdle /\ CacheIdle /\ ReactIdle /\ HandlersIdle /\ PanelIdle /\ CmdIdle
    /\ env = EnvDefault
    /\ cog \in {NewCog(d, r, g) : d \in BOOLEAN, r \in {{}, {ROLE_RECRUITER}}, g \in {0, GENERAL_ID}}
    /\ posted = {}
    /\ ev = WEv("init", 0, "")

WelcomeNext ==
    \/ \E a \in WelcomePeople, t \in WelcomeTags : welcome(a, t)
    \/ \E a \in WelcomePeople, v \in 1..Len(TemplateSheets), sf \in BOOLEAN : welcome_refresh(a, v, sf)
    \/ \E a \in WelcomePeople, on \in BOOLEAN : welcome_switch(a, on)

SpecWelcome == WelcomeInit /\ [][WelcomeNext]_vars

\* C12 as stated: a !welcome that ends without the welcome embed posted in the
\* clan channel has written a log line through log_to_channel and has sent a
\* reply to the invoker.
C12_NeverSilent ==
    (ev.op = "welcome" /\ ~ev.clan) => (ev.logs >= 1 /\ ev.replied)

\* the fields the merge takes from the default C1C row
MergedFields == {"TITLE", "BODY", "FOOTER", "PING_USER"}

\* the template the claim names for a tag, whatever its case
ExpectedRow(c, tag) ==
    LET clan == c.cache[StrUpper(tag)]
    IN  IF clan # NoTemplate /\ clan.ACTIVE THEN clan
        ELSE IF clan # NoTemplate /\ c.default_row # NoTemplate
        THEN [k \in DOMAIN clan |-> IF k \in MergedFields THEN c.default_row[k] ELSE clan[k]]
        ELSE NoTemplate

\* C13: whatever templates are loaded, for every tag, in any case,
\* _effective_row is the cached clan row itself when that row is active; the
\* clan row with TITLE, BODY, FOOTER and PING_USER of the default C1C row and
\* every other field its own when the row is not active and a default row is
\* loaded; None otherwise, and then !welcome posts nothing in a clan channel or
\* in the general channel; a welcome that is posted uses that row.
C13_EffectiveRow ==
    [][/\ (ev'.op = "welcome-refresh" /\ cog' # cog) =>
             \A t \in WelcomeTags :
                /\ effective_row(cog', t) = ExpectedRow(cog', t)
                /\ effective_row(cog', StrUpper(t)) = effective_row(cog', t)
       /\ (ev'.op = "welcome" /\ ExpectedRow(cog, ev'.tag) = NoTemplate) =>
             /\ posted' = posted
             /\ ~ev'.clan /\ ~ev'.general
       /\ (ev'.op = "welcome" /\ ev'.clan) =>
             /\ ev'.eff = ExpectedRow(cog, ev'.tag)
             /\ posted' \ posted \subseteq {<<ev'.eff.TARGET_CHANNEL_ID, ev'.tag>>,
                                            <<"general", ev'.tag>>}]_vars

\* a welcome was posted from the row of an inactive clan merged with the text
\* of the default row
C13_Witness ==
    /\ ev.op = "welcome" /\ ev.clan
    /\ ~ev.eff.ACTIVE
    /\ cog.default_row # NoTemplate
    /\ ev.eff.TITLE = cog.default_row.TITLE /\ ev.eff.TITLE # cog.cache[ev.tag].TITLE
    /\ ev.eff.CLANLEAD = "Cy" /\ ev.eff.TARGET_CHANNEL_ID = "222"
    /\ <<"222", ev.tag>> \in posted

(***************************************************************************)
(* SpecGate: the role-gated commands under every configuration of the     *)
(* three role sets                                                         *)
(***************************************************************************)
GateEnvs ==
    {[EnvDefault EXCEPT !.RECRUITER_ROLE_IDS = r, !.LEAD_ROLE_IDS = l, !.ADMIN_ROLE_IDS = a] :
        r \in {{}, {ROLE_RECRUITER}}, l \in {{}, {ROLE_LEAD}}, a \in {{}, {ROLE_ADMIN}}}

GateExtras == {"", " C1CE"}

GateInit ==
    /\ WelcomeIdle
    /\ MatchIdle /\ CacheIdle /\ ReactIdle /\ HandlersIdle /\ PanelIdle
    /\ env \in GateEnvs
    /\ active_panels = [k \in PanelKeys |-> 0]
    /\ npanel = 0
    /\ panels = [k \in PanelIds |-> NoPanel]
    /\ thread = "missing"
    /\ ev = KEv("init", 0, "")

GateNext ==
    \/ \E a \in GatePeople, extra \in GateExtras : clanmatch_cmd(a, extra, "general")
    \/ \E a \in GatePeople : ReloadCmd(a)
    \/ \E rf \in BOOLEAN : ClanCmd("c1ce", "none", rf)

SpecGate == GateInit /\ [][GateNext]_vars

\* the members the claim permits to use !clanmatch
MayRecruit(a) ==
    /\ a.member
    /\ \/ a.admin
       \/ a.roles \cap env.RECRUITER_ROLE_IDS # {}
       \/ a.roles \cap env.ADMIN_ROLE_IDS # {}

\* the members the claim permits to use !reload
MayReload(a) ==
    /\ a.member
    /\ \/ a.admin
       \/ a.roles \cap env.ADMIN_ROLE_IDS # {}
       \/ a.roles \cap env.LEAD_ROLE_IDS # {}

\* C11: !clanmatch by an author who is not a guild member with a recruiter
\* role, an admin role or the administrator permission is refused with a reply
\* and sends no panel, edits none and leaves ACTIVE_PANELS, the row cache and
\* the worksheet connection as they were; !reload by an author who is not a
\* guild member with the administrator permission, an admin role or a lead
\* role is refused with a reply and leaves them as they were, and by any other
\* author it clears the cache; a role of an empty role set permits nobody.
C11_RoleGated ==
    [][/\ \A a \in GatePeople :
             (ev'.op = "clanmatch" /\ ev'.user = a.id /\ ~MayRecruit(a)) =>
                 /\ ev'.refused \in {"usage", "role"}
                 /\ ev'.sent = 0 /\ ev'.edited = 0
                 /\ UNCHANGED <<active_panels, npanel, panels, cache_rows, cache_time, ws>>
       /\ \A a \in GatePeople :
             (ev'.op = "reload" /\ ReloadCmd(a)) =>
                 IF MayReload(a)
                 THEN ev'.allowed /\ cache_rows' = NoRows /\ ws' = 0
                 ELSE /\ ~ev'.allowed
                      /\ UNCHANGED <<active_panels, npanel, panels, cache_rows, cache_time, ws>>
       /\ <<active_panels, npanel, panels>>' # <<active_panels, npanel, panels>> =>
             \E a \in GatePeople : a.id = ev'.user /\ MayRecruit(a)]_vars

\* a member whose only role is the lead role is refused by !clanmatch while a
\* panel is open and rows are cached
C11_Witness ==
    /\ ev.op = "clanmatch" /\ ev.refused = "role" /\ ev.user = 2
    /\ env.LEAD_ROLE_IDS # {} /\ env.RECRUITER_ROLE_IDS # {}
    /\ npanel > 0 /\ cache_rows # NoRows

(***************************************************************************)
(* SpecMatch: row_matches applied to drawn rows and filter values          *)
(***************************************************************************)
MatchRows ==
    { MkRow(n, clan, tag, "3", p, "NML", "brutal", s, t, u) :
        n \in {IDX_AB, IDX_AB + 1},
        clan \in {"  ", "Elders", "Clan"},
        tag \in {"C1CE", "tag"},
        p \in {"Hard, NM", "unm"},
        s \in {"1", ""},
        t \in {"1", " 0 "},
        u \in {"Casual", "Stress-Free / Competitive"} }

MatchFilters ==
    [cb : {None, "", "Hard"},
     hydra : {None, "Normal"},
     chimera : {None},
     cvc : {None, "", "1"},
     siege : {None, "", "0"},
     playstyle : {None, "", "stress-free"}]

MatchInit ==
    /\ WelcomeIdle
    /\ CacheIdle /\ ReactIdle /\ PanelIdle /\ HandlersIdle /\ CmdIdle
    /\ env = EnvDefault /\ ev = [op |-> "init"]
    /\ m_row \in MatchRows
    /\ m_f \in MatchFilters
    /\ m_pc = "call"
    /\ m_res = FALSE

Match ==
    /\ m_pc = "call"
    /\ m_pc' = "ret"
    /\ m_res' = row_matches(m_row, m_f.cb, m_f.hydra, m_f.chimera, m_f.cvc, m_f.siege, m_f.playstyle)
    /\ UNCHANGED <<m_row, m_f, wvars, hvars, kvars, env, cvars, rvars, pvars, ev>>

MatchNext == Match

SpecMatch == MatchInit /\ [][MatchNext]_vars

FilterKeys == {"cb", "hydra", "chimera", "cvc", "siege", "playstyle"}

IsDataRow(row) ==
    /\ Len(row) > IDX_AB
    /\ ~is_header_row(row)
    /\ StrStrip(Cell(row, COL_B_CLAN)) # ""

ColumnOk(k, row, v) ==
    CASE k = "cb" -> cell_has_diff(Cell(row, COL_P_CB), v)
      [] k = "hydra" -> cell_has_diff(Cell(row, COL_Q_HYDRA), v)
      [] k = "chimera" -> cell_has_diff(Cell(row, COL_R_CHIM), v)
      [] k = "cvc" -> cell_equals_10(Cell(row, COL_S_CVC), v)
      [] k = "siege" -> cell_equals_10(Cell(row, COL_T_SIEGE), v)
      [] k = "playstyle" -> playstyle_ok(Cell(row, COL_U_STYLE), v)

\* unset as the claim reads it: None or empty, for each of the six filters
UnsetAny(k, v) == v = None \/ v = ""

\* unset as the code reads it: the yes/no filters are unset only when None
UnsetCode(k, v) == IF k \in {"cvc", "siege"} THEN v = None ELSE (v = None \/ v = "")

====
